---- MODULE Spec2Model ----
(***************************************************************************)
(* A model of the retrieval-and-grounding pipeline of the video analysis   *)
(* service: transcript acquisition (TranscriptExtractor, TranscriptParser),*)
(* chunking and vector indexing (VectorStoreManager), the chat routes that *)
(* gate on the presence of a collection, the Qdrant-backed text search     *)
(* (EmbeddingService, RAGChatService) and the hybrid frame search          *)
(* (VisualSearchService).                                                  *)
(***************************************************************************)
EXTENDS Integers, Sequences, FiniteSets, TLC

VARIABLES
    \* ---- TranscriptExtractor (transcript_extractor.py) ----
    use_gemini,   \* self.use_gemini, set by __init__
    pc,           \* position of the running fetch_transcript call
    url,          \* its video_url argument
    attempts,     \* history: the sources attempted by the running call, in order
    outcomes,     \* history: what each attempt yielded (kind and segments)
    ret,          \* what fetch_transcript gave its caller
    tmpfs,        \* the temporary directories that exist on disk
    ntemp,        \* number of tempfile.mkdtemp() calls so far
    calls,        \* number of fetch_transcript calls so far
    \* ---- TranscriptParser (transcript_parser.py) ----
    p_kind,       \* which parser ran last: "none", "gemini" or "vtt"
    p_in,         \* the document it was given (a sequence of lines)
    p_out,        \* the transcript it returned
    \* ---- VectorStoreManager, chat routes (vector_store_manager.py, chat_routes.py) ----
    chroma,       \* storage/chroma/video_{id}: the directory and the collection in it
    last,         \* the last indexing, endpoint or retrieval call and what it returned
    \* ---- EmbeddingService (embeddings.py) ----
    qdrant_text,  \* the points of the Qdrant collection "text_embeddings", in scan order
    qdrant_visual, \* the points of the Qdrant collection "visual_embeddings"
    \* ---- VisualSearchService (visual_search.py) ----
    found,        \* the last frame search: its arguments and what it returned
    \* ---- helper methods called on their own (visual_search.py, section_generator.py) ----
    fn_name,      \* the method called last: "none" before any call
    fn_args,      \* its arguments
    fn_ret,       \* what it returned
    \* ---- RAGChatService.conversations (rag_chat.py), routes.py ----
    conversations, \* self.conversations of one service: conversation id -> messages
    appended,     \* history: per conversation, every message appended since it was created
    turn,         \* the last chat or clear_conversation call on that service
    threads,      \* the chat calls running concurrently on that service
    requests,     \* history: the requests the chat endpoints of routes.py answered
    \* ---- QAManager (qa_manager.py), VectorStoreManager under concurrency ----
    qa_config,    \* self.config and the configuration self.llm was built from
    qa_cache,     \* the lru_cache of get_qa_chain of one QAManager: video id -> chain or None
    qa_last,      \* the last call on the QAManager or the VectorStoreManager
    writers       \* the process_transcript calls that are inside _create_vector_store

extractVars == <<use_gemini, pc, url, attempts, outcomes, ret, tmpfs, ntemp, calls>>

parseVars == <<p_kind, p_in, p_out>>

indexVars == <<chroma, last>>
qdrantVars == <<qdrant_text, qdrant_visual, found>>

fnVars == <<fn_name, fn_args, fn_ret>>

convVars == <<conversations, appended, turn, threads, requests>>

qaVars == <<qa_config, qa_cache, qa_last, writers>>

vars == <<extractVars, parseVars, indexVars, qdrantVars, fnVars, convVars, qaVars>>

\* What the operations of one component leave alone: the other components.
notExtract == <<parseVars, indexVars, qdrantVars, fnVars, convVars, qaVars>>
notParse == <<extractVars, indexVars, qdrantVars, fnVars, convVars, qaVars>>
notIndex == <<extractVars, parseVars, fnVars, convVars, qaVars>>
notQdrant == <<extractVars, parseVars, fnVars, convVars, qaVars>>
notFn == <<extractVars, parseVars, indexVars, qdrantVars, convVars, qaVars>>
notConv == <<extractVars, parseVars, indexVars, qdrantVars, fnVars, qaVars>>
notQa == <<extractVars, parseVars, qdrantVars, fnVars, convVars>>

----------------------------------------------------------------------------
(* Bounds of the model *)

MaxCalls == 2
\* Longest document (in lines) handed to a parser.
MaxLines == 3
\* Videos have ids 1..MaxVideoId.
MaxVideoId == 2
\* VectorStoreConfig.chunk_size and chunk_overlap, counted in words.
ChunkWords == 3
ChunkOverlap == 1
\* Most points the two Qdrant collections hold together.
MaxPoints == 4
\* Largest `limit` a frame search is called with.
MaxLimit == 3
\* Longest result list handed to _deduplicate_results on its own.
MaxResults == 3
\* Most lines in an answer of the language model to the section prompt.
MaxAnswerLines == 4
\* Most points in "text_embeddings" when chat is called.
MaxChatPoints == 14
\* Most messages appended to the conversations of one service, in all.
MaxMessages == 14
\* Most requests to the chat endpoints of routes.py in one run.
MaxRequests == 3
\* The chat calls each of the concurrent threads makes.
MaxThreadCalls == 3
\* Most conversation ids chat generates for calls without one.
MaxGenerated == 1
\* Most sections handed to merge_sections, and the largest max_sections.
MaxMergeInput == 5
MaxMergeTarget == 3

----------------------------------------------------------------------------
(* Generic helpers *)

Range(s) == {s[i] : i \in 1..Len(s)}

Min(a, b) == IF a < b THEN a ELSE b

\* s[:n]
Prefix(s, n) == SubSeq(s, 1, Min(Len(s), n))

\* s[n:] (n counted from 0)
Drop(s, n) == SubSeq(s, n + 1, Len(s))

----------------------------------------------------------------------------
(* Transcript segments: {text, start, duration}.  A text is a sequence of   *)
(* words; start and duration are whole seconds.                              *)

Seg(t, s, d) == [text |-> t, start |-> s, duration |-> d]

\* The segment lists a transcript source can hand back.
SourceSegLists ==
    { <<>>,
      <<Seg(<<"hello", "world">>, 0, 2)>>,
      <<Seg(<<"hello", "world">>, 0, 2), Seg(<<"second", "part">>, 2, 2)>> }

----------------------------------------------------------------------------
(* TranscriptExtractor.extract_video_id *)

\* A video_url: the shape of what precedes the id, and the characters after it.
UrlKinds == {"watch", "short", "embed", "query", "other"}
UrlTails == { <<>>, <<"a">>, <<"a", "&", "t">>, <<"&", "a">> }
Urls == [kind : UrlKinds, tail : UrlTails]

\* The characters the capture group [^&\n?#]+ stops at.
IdDelimiters == {"&", "\n", "?", "#"}

\* The longest prefix of s without a delimiter: what ([^&\n?#]+) captures.
RECURSIVE IdCapture(_)
IdCapture(s) ==
    IF s = <<>> \/ Head(s) \in IdDelimiters THEN <<>>
    ELSE <<Head(s)>> \o IdCapture(Tail(s))

NoVideoId == <<>>

\* The id the two patterns extract, or NoVideoId where the code raises ValueError.
\* "watch", "short", "embed" are the alternatives of the first pattern, "query"
\* (youtube.com/...&v=ID) is matched by the second; the capture needs one char.
extract_video_id(u) ==
    IF u.kind \in {"watch", "short", "embed", "query"} THEN IdCapture(u.tail)
    ELSE NoVideoId

----------------------------------------------------------------------------
(* TranscriptExtractor.fetch_transcript and the sources it calls *)

NoReturn == [kind |-> "none", segs |-> <<>>]
Returned(segs) == [kind |-> "value", segs |-> segs]
Raised == [kind |-> "raised", segs |-> <<>>]

\* What one attempt yielded: it raised, returned nothing, or returned segments.
OutcomeRaised == [kind |-> "raised", segs |-> <<>>]
OutcomeOf(segs) == [kind |-> IF segs = <<>> THEN "empty" ELSE "segments", segs |-> segs]

\* A directory made by tempfile.mkdtemp(): its number and the files in it.
TempDir(n, files) == [id |-> n, files |-> files]

\* fetch_transcript, lines 43-44: the id is extracted outside every try block.
FetchStart(u) ==
    /\ pc = "idle"
    /\ calls < MaxCalls
    /\ calls' = calls + 1
    /\ url' = u
    /\ attempts' = <<>>
    /\ outcomes' = <<>>
    /\ IF extract_video_id(u) = NoVideoId
         THEN /\ pc' = "done"
              /\ ret' = Raised
         ELSE /\ pc' = "m1"
              /\ ret' = NoReturn
    /\ UNCHANGED <<use_gemini, tmpfs, ntemp>>
    /\ UNCHANGED notExtract

\* What analyze_video_with_gemini leaves on disk and returns, per path taken.
\* Every path is inside the method's own try/except, so it never raises.
GeminiPaths ==
    {"mkdtemp_raises", "download_failed", "download_failed_partial",
     "upload_raises", "generate_raises", "text_raises", "parsed"}

analyze_video_with_gemini(path, parsed) ==
    CASE path = "mkdtemp_raises" ->
           [segs |-> <<>>, made |-> 0, left |-> {}]
      [] path = "download_failed" ->           \* line 100-102: return [] at once
           [segs |-> <<>>, made |-> 1, left |-> {TempDir(ntemp + 1, {})}]
      [] path = "download_failed_partial" ->   \* returncode != 0, a file was written
           [segs |-> <<>>, made |-> 1, left |-> {TempDir(ntemp + 1, {"video.mp4"})}]
      [] path = "upload_raises" ->             \* line 107 raises, caught at line 140
           [segs |-> <<>>, made |-> 1, left |-> {TempDir(ntemp + 1, {"video.mp4"})}]
      [] path = "generate_raises" ->           \* line 126 raises, caught at line 140
           [segs |-> <<>>, made |-> 1, left |-> {TempDir(ntemp + 1, {"video.mp4"})}]
      [] path = "text_raises" ->               \* lines 129-133 ran, response.text raises
           [segs |-> <<>>, made |-> 1, left |-> {}]
      [] OTHER ->                              \* lines 129-138
           [segs |-> parsed, made |-> 1, left |-> {}]

\* Method 1, lines 47-55.
Method1Gemini ==
    /\ pc = "m1"
    /\ use_gemini
    /\ \E path \in GeminiPaths, parsed \in SourceSegLists :
         LET r == analyze_video_with_gemini(path, parsed) IN
         /\ attempts' = Append(attempts, "gemini")
         /\ outcomes' = Append(outcomes, OutcomeOf(r.segs))
         /\ tmpfs' = tmpfs \cup r.left
         /\ ntemp' = ntemp + r.made
         /\ IF r.segs # <<>>
              THEN pc' = "done" /\ ret' = Returned(r.segs)
              ELSE pc' = "m2" /\ ret' = ret
    /\ UNCHANGED <<use_gemini, url, calls>>
    /\ UNCHANGED notExtract

\* Line 47 with use_gemini false: the first source is not part of the chain.
Method1Skipped ==
    /\ pc = "m1"
    /\ ~use_gemini
    /\ pc' = "m2"
    /\ UNCHANGED <<use_gemini, url, attempts, outcomes, ret, tmpfs, ntemp, calls>>
    /\ UNCHANGED notExtract

\* Where Method 2 goes after the API call: an exception is caught at line 68.
AfterApiNoIsolation(raised, segs) ==
    IF raised THEN [pc |-> "done", ret |-> Raised]
    ELSE IF segs # <<>> THEN [pc |-> "done", ret |-> Returned(segs)]
    ELSE [pc |-> "m3", ret |-> NoReturn]

AfterApi(raised, segs) ==
    IF ~raised /\ segs # <<>> THEN [pc |-> "done", ret |-> Returned(segs)]
    ELSE [pc |-> "m3", ret |-> NoReturn]

\* Method 2, lines 58-69: YouTubeTranscriptApi.get_transcript.
Method2Api ==
    /\ pc = "m2"
    /\ \E raised \in BOOLEAN, segs \in SourceSegLists :
         LET nxt == AfterApi(raised, segs) IN
         /\ attempts' = Append(attempts, "api")
         /\ outcomes' = Append(outcomes, IF raised THEN OutcomeRaised ELSE OutcomeOf(segs))
         /\ pc' = nxt.pc
         /\ ret' = nxt.ret
    /\ UNCHANGED <<use_gemini, url, tmpfs, ntemp, calls>>
    /\ UNCHANGED notExtract

\* What extract_subtitles_with_ytdlp leaves on disk and returns, per path taken.
YtdlpPaths ==
    {"mkdtemp_raises", "run_raises", "returncode_nonzero", "no_subtitle_file",
     "parsed"}

extract_subtitles_with_ytdlp(path, parsed) ==
    CASE path = "mkdtemp_raises" ->
           [segs |-> <<>>, made |-> 0, left |-> {}]
      [] path = "run_raises" ->                \* line 152 raises, caught at line 186
           [segs |-> <<>>, made |-> 1, left |-> {TempDir(ntemp + 1, {})}]
      [] path = "returncode_nonzero" ->        \* line 163 false: falls to line 189
           [segs |-> <<>>, made |-> 1, left |-> {TempDir(ntemp + 1, {})}]
      [] path = "no_subtitle_file" ->          \* line 170 false: falls to line 189
           [segs |-> <<>>, made |-> 1, left |-> {TempDir(ntemp + 1, {"info.json"})}]
      [] OTHER ->                              \* lines 171-184: parse, then clean up
           [segs |-> parsed, made |-> 1, left |-> {}]

\* Method 3, lines 72-79.  The method catches its own exceptions.
Method3Ytdlp ==
    /\ pc = "m3"
    /\ \E path \in YtdlpPaths, parsed \in SourceSegLists :
         LET r == extract_subtitles_with_ytdlp(path, parsed) IN
         /\ attempts' = Append(attempts, "ytdlp")
         /\ outcomes' = Append(outcomes, OutcomeOf(r.segs))
         /\ tmpfs' = tmpfs \cup r.left
         /\ ntemp' = ntemp + r.made
         /\ IF r.segs # <<>>
              THEN pc' = "done" /\ ret' = Returned(r.segs)
              ELSE pc' = "exhausted" /\ ret' = ret
    /\ UNCHANGED <<use_gemini, url, calls>>
    /\ UNCHANGED notExtract

\* Lines 81-83: "Final fallback - return empty to indicate no transcript".
ReturnEmpty ==
    /\ pc = "exhausted"
    /\ pc' = "done"
    /\ ret' = Returned(<<>>)
    /\ UNCHANGED <<use_gemini, url, attempts, outcomes, tmpfs, ntemp, calls>>
    /\ UNCHANGED notExtract

\* The caller takes the result; the extractor is ready for the next call.
FetchReturn ==
    /\ pc = "done"
    /\ pc' = "idle"
    /\ UNCHANGED <<use_gemini, url, attempts, outcomes, ret, tmpfs, ntemp, calls>>
    /\ UNCHANGED notExtract

ExtractInit ==
    /\ use_gemini \in BOOLEAN       \* __init__, lines 18-25
    /\ pc = "idle"
    /\ url = [kind |-> "other", tail |-> <<>>]
    /\ attempts = <<>>
    /\ outcomes = <<>>
    /\ ret = NoReturn
    /\ tmpfs = {}
    /\ ntemp = 0
    /\ calls = 0

ExtractNext ==
    \/ \E u \in Urls : FetchStart(u)
    \/ Method1Gemini
    \/ Method1Skipped
    \/ Method2Api
    \/ Method3Ytdlp
    \/ ReturnEmpty
    \/ FetchReturn

----------------------------------------------------------------------------
(* TranscriptParser: timestamps are sequences of one-character strings *)

Digits == {"0", "1", "2", "3", "4", "5", "6", "7", "8", "9"}

DigitValue(c) ==
    CASE c = "0" -> 0 [] c = "1" -> 1 [] c = "2" -> 2 [] c = "3" -> 3 [] c = "4" -> 4
      [] c = "5" -> 5 [] c = "6" -> 6 [] c = "7" -> 7 [] c = "8" -> 8 [] OTHER -> 9

\* str.split(c): the parts of s between occurrences of c (always at least one).
RECURSIVE SplitOn(_, _)
SplitOn(s, c) ==
    IF s = <<>> THEN << <<>> >>
    ELSE LET rest == SplitOn(Tail(s), c) IN
         IF Head(s) = c THEN << <<>> >> \o rest
         ELSE << <<Head(s)>> \o Head(rest) >> \o Tail(rest)

\* Whether int(s) succeeds: s is a non-empty run of digits.
IsInt(s) == s # <<>> /\ \A i \in 1..Len(s) : s[i] \in Digits

\* int(s) for such an s.
RECURSIVE ToInt(_)
ToInt(s) ==
    IF s = <<>> THEN 0
    ELSE 10 * ToInt(SubSeq(s, 1, Len(s) - 1)) + DigitValue(s[Len(s)])

\* The value a parser's try block did not produce (it raised or fell through).
ParseFailed == -1

\* parse_timestamp_to_seconds, lines 55-61: the value computed inside the try.
TimestampInTry(ts) ==
    LET parts == SplitOn(ts, ":") IN
    IF Len(parts) = 2
      THEN IF IsInt(parts[1]) /\ IsInt(parts[2])
             THEN ToInt(parts[1]) * 60 + ToInt(parts[2])
             ELSE ParseFailed
    ELSE IF Len(parts) = 1
      THEN IF IsInt(parts[1]) THEN ToInt(parts[1]) ELSE ParseFailed
    ELSE ParseFailed

\* parse_timestamp_to_seconds, lines 53-64: seconds; 0.0 when the try failed.
parse_timestamp_to_seconds(ts) ==
    IF TimestampInTry(ts) = ParseFailed THEN 0 ELSE TimestampInTry(ts)

\* parse_vtt_timestamp, lines 98-112: the value computed inside the try, in ms.
VttTimestampInTry(ts) ==
    LET dot == SplitOn(ts, ".")
        hasDot == Len(dot) > 1
        time_part == IF hasDot THEN dot[1] ELSE ts
        ms_ok == ~hasDot \/ (Len(dot) = 2 /\ IsInt(Prefix(dot[2], 3)))
        ms == IF hasDot /\ ms_ok THEN ToInt(Prefix(dot[2], 3)) ELSE 0
        tc == SplitOn(time_part, ":")
    IN
    IF ~ms_ok THEN ParseFailed
    ELSE IF Len(tc) = 3
      THEN IF IsInt(tc[1]) /\ IsInt(tc[2]) /\ IsInt(tc[3])
             THEN (ToInt(tc[1]) * 3600 + ToInt(tc[2]) * 60 + ToInt(tc[3])) * 1000 + ms
             ELSE ParseFailed
    ELSE IF Len(tc) = 2
      THEN IF IsInt(tc[1]) /\ IsInt(tc[2])
             THEN (ToInt(tc[1]) * 60 + ToInt(tc[2])) * 1000 + ms
             ELSE ParseFailed
    ELSE ParseFailed

\* parse_vtt_timestamp, lines 96-116: milliseconds; 0.0 when the try failed.
parse_vtt_timestamp(ts) ==
    IF VttTimestampInTry(ts) = ParseFailed THEN 0 ELSE VttTimestampInTry(ts)

\* Default durations the parsers attach (seconds).
GeminiSegmentDuration == 30
VttSegmentDuration == 3

\* A stripped line of Gemini's answer.  bracketed: it holds "[" and "]";
\* stamp: the text between them; content: the stripped text after "]" (the
\* whole line when there are no brackets), as words; long: len(line) > 20.
GLine(b, st, ct, lg) == [bracketed |-> b, stamp |-> st, content |-> ct, long |-> lg]

GeminiLines ==
    { GLine(TRUE, <<"0", ":", "3", "0", "-", "1", ":", "0", "0">>, <<"hello">>, FALSE),
      GLine(TRUE, <<"x", ":", "y", "-", "z">>, <<"garbled">>, FALSE),
      GLine(TRUE, <<"1", ":", "0", "2", ":", "0", "3", "-", "2", ":", "0", "0", ":", "0", "0">>,
            <<"hour">>, TRUE),
      GLine(TRUE, <<"0", ":", "4", "5">>, <<"no", "range">>, TRUE),
      GLine(TRUE, <<"9", "0", "-", "9", "5">>, <<>>, FALSE),
      GLine(FALSE, <<>>, <<"a", "plain", "sentence">>, TRUE),
      GLine(FALSE, <<>>, <<"short">>, FALSE),
      GLine(FALSE, <<>>, <<>>, FALSE) }

HasDash(line) == "-" \in Range(line.stamp) \/ "-" \in Range(line.content)

\* parse_gemini_response, lines 17-45: the transcript after one more line.
GeminiStep(transcript, line) ==
    IF ~line.bracketed /\ line.content = <<>> THEN transcript            \* line 19
    ELSE IF line.bracketed /\ HasDash(line)                               \* line 23
      THEN IF "-" \in Range(line.stamp) /\ line.content # <<>>            \* line 29
             THEN Append(transcript,
                         Seg(line.content,
                             parse_timestamp_to_seconds(SplitOn(line.stamp, "-")[1]),
                             GeminiSegmentDuration))
             ELSE transcript
    ELSE IF line.long                                                     \* line 40
      THEN Append(transcript,
                  Seg(line.content, Len(transcript) * GeminiSegmentDuration,
                      GeminiSegmentDuration))
    ELSE transcript

RECURSIVE GeminiFold(_, _)
GeminiFold(transcript, lines) ==
    IF lines = <<>> THEN transcript
    ELSE GeminiFold(GeminiStep(transcript, Head(lines)), Tail(lines))

\* parse_gemini_response, lines 11-51.
parse_gemini_response(lines) == GeminiFold(<<>>, lines)

\* A line of a VTT file.  cue: it holds "-->"; stamp: line.split(" --> ")[0]
\* stripped; text: the stripped line as words; markup: it starts with "<".
VLine(c, st, tx, mk) == [cue |-> c, stamp |-> st, text |-> tx, markup |-> mk]

VttLines ==
    { VLine(TRUE, <<"0", "2", ":", "0", "3", ".", "4", "5", "6">>, <<"-->">>, FALSE),
      VLine(TRUE, <<"0", "1", ":", "0", "2", ":", "0", "3", ".", "4", "5", "6">>, <<"-->">>, FALSE),
      VLine(TRUE, <<"x", "x", ":", "0", "3">>, <<"-->">>, FALSE),
      VLine(TRUE, <<"0", "0", ".", "0", "1", ".", "5">>, <<"-->">>, FALSE),
      VLine(FALSE, <<>>, <<"hello", "world">>, FALSE),
      VLine(FALSE, <<>>, <<"c">>, TRUE),
      VLine(FALSE, <<>>, <<>>, FALSE) }

\* parse_vtt_file, lines 75-88: what line i adds to the transcript.
VttCue(lines, i) ==
    IF lines[i].cue /\ i + 1 <= Len(lines)
         /\ lines[i + 1].text # <<>> /\ ~lines[i + 1].markup
      THEN << Seg(lines[i + 1].text, parse_vtt_timestamp(lines[i].stamp),
                  VttSegmentDuration) >>
      ELSE <<>>

RECURSIVE VttFrom(_, _)
VttFrom(lines, i) ==
    IF i > Len(lines) THEN <<>> ELSE VttCue(lines, i) \o VttFrom(lines, i + 1)

\* parse_vtt_file, lines 66-94 (start times in milliseconds).
parse_vtt_file(lines) == VttFrom(lines, 1)

DocsOf(L) == UNION { [1..n -> L] : n \in 0..MaxLines }

ParseGeminiResponse(doc) ==
    /\ p_kind = "none"
    /\ p_kind' = "gemini"
    /\ p_in' = doc
    /\ p_out' = parse_gemini_response(doc)
    /\ UNCHANGED notParse

ParseVttFile(doc) ==
    /\ p_kind = "none"
    /\ p_kind' = "vtt"
    /\ p_in' = doc
    /\ p_out' = parse_vtt_file(doc)
    /\ UNCHANGED notParse

ParseInit ==
    /\ p_kind = "none"
    /\ p_in = <<>>
    /\ p_out = <<>>

ParseNext ==
    \/ \E doc \in DocsOf(GeminiLines) : ParseGeminiResponse(doc)
    \/ \E doc \in DocsOf(VttLines) : ParseVttFile(doc)

----------------------------------------------------------------------------
(* VectorStoreManager: documents, chunks and the per-video Chroma directory *)

VideoIds == 1..MaxVideoId

\* The segment lists handed to process_transcript.
IndexSegLists ==
    { <<>>,
      <<Seg(<<>>, 0, 2)>>,
      <<Seg(<<"hello", "world">>, 0, 2)>>,
      <<Seg(<<"hello", "world">>, 0, 2), Seg(<<"second", "part">>, 2, 2)>>,
      <<Seg(<<"intro">>, 0, 60), Seg(<<>>, 60, 5), Seg(<<"hello", "again">>, 65, 30),
        Seg(<<"closing", "words", "here">>, 95, 25)>> }

\* _format_timestamp, lines 302-306: MM:SS as <<minutes, seconds>>.
FormatTimestamp(seconds) == <<seconds \div 60, seconds % 60>>

\* _create_documents_from_segments, lines 224-252: one document per segment
\* whose stripped text is not empty.
RECURSIVE CreateDocuments(_, _)
CreateDocuments(video_id, segments) ==
    IF segments = <<>> THEN <<>>
    ELSE LET seg == Head(segments)
             rest == CreateDocuments(video_id, Tail(segments))
         IN IF seg.text = <<>> THEN rest
            ELSE << [page_content |-> seg.text, video_id |-> video_id,
                     start_time |-> seg.start, duration |-> seg.duration,
                     timestamp |-> FormatTimestamp(seg.start),
                     source |-> "transcript"] >> \o rest

\* " ".join(page_content ...), line 261.
RECURSIVE JoinText(_)
JoinText(documents) ==
    IF documents = <<>> THEN <<>>
    ELSE Head(documents).page_content \o JoinText(Tail(documents))

\* RecursiveCharacterTextSplitter.split_text (configured at lines 110-114) on
\* a text of words: windows of at most ChunkWords words, each starting with
\* the last ChunkOverlap words of the one before.
RECURSIVE SplitText(_)
SplitText(words) ==
    IF words = <<>> THEN <<>>
    ELSE IF Len(words) <= ChunkWords THEN <<words>>
    ELSE <<Prefix(words, ChunkWords)>>
           \o SplitText(Drop(words, ChunkWords - Min(ChunkOverlap, ChunkWords - 1)))

\* _calculate_chunk_timestamp, lines 293-300, in milliseconds (rounded down).
CalculateChunkTimestamp(chunk_index, total_chunks, documents) ==
    IF documents = <<>> THEN 0
    ELSE LET lastdoc == documents[Len(documents)]
             total_duration == lastdoc.start_time + lastdoc.duration
         IN (chunk_index * total_duration * 1000) \div total_chunks

\* _create_chunks_from_documents, lines 254-291, given what split_text returned.
ChunkDocs(video_id, documents, chunks) ==
    [i \in 1..Len(chunks) |->
        LET chunk_start == CalculateChunkTimestamp(i - 1, Len(chunks), documents) IN
        [page_content |-> chunks[i], video_id |-> video_id,
         chunk_id |-> i - 1, approximate_start_time |-> chunk_start,
         timestamp |-> FormatTimestamp(chunk_start \div 1000),
         source |-> "transcript_chunk"]]

\* The chunk documents of a fault-free _create_chunks_from_documents.
CreateChunks(video_id, documents) ==
    ChunkDocs(video_id, documents, SplitText(JoinText(documents)))

\* A directory storage/chroma/video_{id}.  dir: "absent", "empty" (it exists
\* without files) or "files"; docs: the documents of the collection in it;
\* complete (history): the last write into it ran to its end.
Collection(d, docs, c) == [dir |-> d, docs |-> docs, complete |-> c]
NoCollection == Collection("absent", <<>>, FALSE)

\* What can go wrong inside one process_transcript call.
IndexFaults ==
    {"none", "split_raises", "split_empty", "rmtree_raises",
     "write_fails_at_start", "write_fails_no_docs", "write_fails_partial"}

\* A variant of _create_vector_store that writes into the directory as it is.
CreateVectorStoreNoClear(coll, documents, fault) ==
    [path |-> TRUE, coll |-> Collection("files", coll.docs \o documents, TRUE)]

\* _create_vector_store, lines 308-334: the path returned (FALSE for None)
\* and the directory left behind.  rmtree and from_documents run in one try.
CreateVectorStore(coll, documents, fault) ==
    CASE fault = "rmtree_raises" ->
           [path |-> FALSE,
            coll |-> IF coll.dir = "absent" THEN Collection("empty", <<>>, FALSE) ELSE coll]
      [] fault = "write_fails_at_start" ->
           [path |-> FALSE, coll |-> Collection("empty", <<>>, FALSE)]
      [] fault = "write_fails_no_docs" ->
           [path |-> FALSE, coll |-> Collection("files", <<>>, FALSE)]
      [] fault = "write_fails_partial" ->
           [path |-> FALSE,
            coll |-> Collection("files", Prefix(documents, Len(documents) - 1), FALSE)]
      [] OTHER ->
           [path |-> TRUE, coll |-> Collection("files", documents, TRUE)]

\* ProcessingResult, lines 49-59.
Result(ok, msg, sc, cc, stored) ==
    [success |-> ok, message |-> msg, segments_count |-> sc, chunks_count |-> cc,
     vectorstore_path |-> stored]
NoResult == Result(FALSE, "", 0, 0, FALSE)

\* VectorStoreManager.process_transcript, lines 128-222: the result returned
\* and the directory of video_id afterwards.
ProcessTranscript(coll, video_id, segments, fault) ==
    LET documents == CreateDocuments(video_id, segments)
        chunk_docs == IF fault = "split_empty" THEN <<>>
                      ELSE CreateChunks(video_id, documents)
        store == CreateVectorStore(coll, chunk_docs, fault)
    IN
    IF segments = <<>>
      THEN [result |-> Result(FALSE, "No transcript available for this video", 0, 0, FALSE),
            coll |-> coll]
    ELSE IF documents = <<>>
      THEN [result |-> Result(FALSE, "No valid text found in segments",
                              Len(segments), 0, FALSE),
            coll |-> coll]
    ELSE IF fault = "split_raises"
      THEN [result |-> Result(FALSE, "Failed to process transcript",
                              Len(segments), 0, FALSE),
            coll |-> coll]
    ELSE IF chunk_docs = <<>>
      THEN [result |-> Result(FALSE, "Failed to create chunks from documents",
                              Len(segments), 0, FALSE),
            coll |-> coll]
    ELSE IF ~store.path
      THEN [result |-> Result(FALSE, "Failed to create vector store",
                              Len(segments), Len(chunk_docs), FALSE),
            coll |-> store.coll]
    ELSE [result |-> Result(TRUE, "Transcript processed successfully",
                            Len(segments), Len(chunk_docs), TRUE),
          coll |-> store.coll]

\* The record of one call: the operation, its arguments and what it returned.
\* before: the documents the directory of video_id held when the call began.
Call(op, video_id, segments, result, response, before) ==
    [op |-> op, video_id |-> video_id, segments |-> segments, result |-> result,
     response |-> response, before |-> before, query |-> <<>>, hits |-> <<>>]
NoCall == Call("none", 0, <<>>, NoResult, "", <<>>)

\* The faults that can occur while segments are processed: none of them
\* is reached when no segment has text (lines 145-168).
FaultsFor(segments) ==
    IF CreateDocuments(0, segments) = <<>> THEN {"none"} ELSE IndexFaults

\* A direct call of VectorStoreManager.process_transcript.
process_transcript(video_id, segments, fault) ==
    LET r == ProcessTranscript(chroma[video_id], video_id, segments, fault) IN
    /\ chroma' = [chroma EXCEPT ![video_id] = r.coll]
    /\ last' = Call("process_transcript", video_id, segments, r.result, "",
                    chroma[video_id].docs)
    /\ UNCHANGED qdrantVars
    /\ UNCHANGED notIndex

\* chat_routes._is_video_processed, lines 199-202 (and check_vector_store_exists).
IsVideoProcessed(coll) == coll.dir = "files"

\* The videos the database holds; any other id is answered 404.
DbVideos == VideoIds
UnknownVideoId == MaxVideoId + 1

\* What LangChainVideoService.process_transcript can get from fetch_transcript.
FetchOutcomes == {[raised |-> TRUE, segs |-> <<>>]}
                    \cup {[raised |-> FALSE, segs |-> s] : s \in IndexSegLists}

\* POST /chat/langchain/process/{video_id}, lines 103-161.  Past the
\* "already processed" check every path ends in a 500: a failed fetch raises
\* RuntimeError, and the ProcessingResult that comes back is a dataclass, so
\* result.get (line 139) raises AttributeError, caught at line 156.
process_with_langchain(video_id) ==
    /\ IF video_id \notin DbVideos
         THEN /\ last' = Call("process_with_langchain", video_id, <<>>, NoResult,
                              "404", <<>>)
              /\ UNCHANGED chroma
         ELSE IF IsVideoProcessed(chroma[video_id])
         THEN /\ last' = Call("process_with_langchain", video_id, <<>>, NoResult,
                              "Video already processed", chroma[video_id].docs)
              /\ UNCHANGED chroma
         ELSE \E fetched \in FetchOutcomes :
              IF fetched.raised
                THEN /\ last' = Call("process_with_langchain", video_id, <<>>, NoResult,
                                     "500", chroma[video_id].docs)
                     /\ UNCHANGED chroma
                ELSE \E fault \in FaultsFor(fetched.segs) :
                     LET r == ProcessTranscript(chroma[video_id], video_id,
                                                fetched.segs, fault) IN
                     /\ chroma' = [chroma EXCEPT ![video_id] = r.coll]
                     /\ last' = Call("process_with_langchain", video_id, fetched.segs,
                                     r.result, "500", chroma[video_id].docs)
    /\ UNCHANGED qdrantVars
    /\ UNCHANGED notIndex

\* POST /chat/{video_id}, lines 53-101.  Past the gate QAManager.ask_question
\* retrieves from the collection in the directory and returns a QAResponse;
\* result["answer"] (line 89) then raises TypeError on the dataclass: a 500.
chat_with_video(video_id) ==
    /\ last' = Call("chat_with_video", video_id, <<>>, NoResult,
                    IF video_id \notin DbVideos THEN "404"
                    ELSE IF ~IsVideoProcessed(chroma[video_id]) THEN "422"
                    ELSE "500",
                    IF video_id \in DbVideos THEN chroma[video_id].docs ELSE <<>>)
    /\ UNCHANGED <<chroma, qdrantVars>>
    /\ UNCHANGED notIndex

IndexInit ==
    /\ chroma = [v \in VideoIds |-> NoCollection]
    /\ last = NoCall

IndexNext ==
    \/ \E v \in VideoIds, segs \in IndexSegLists :
         \E f \in FaultsFor(segs) : process_transcript(v, segs, f)
    \/ \E v \in VideoIds \cup {UnknownVideoId} : process_with_langchain(v)
    \/ \E v \in VideoIds \cup {UnknownVideoId} : chat_with_video(v)

----------------------------------------------------------------------------
(* EmbeddingService: the Qdrant collection "text_embeddings" *)

Max(a, b) == IF a > b THEN a ELSE b

\* The sections the database holds for a video.
DbSections(video_id) ==
    << [id |-> 10 * video_id + 1, title |-> <<"hello", "world">>,
        start_time |-> 0, end_time |-> 60],
       [id |-> 10 * video_id + 2, title |-> <<"second">>,
        start_time |-> 60, end_time |-> 120] >>

\* Cosine similarity of the embeddings of two texts, in percent: the share
\* of common words (generate_text_embedding, lines 91-111, and Distance.COSINE).
TextScore(a, b) ==
    IF a = <<>> \/ b = <<>> THEN 0
    ELSE (100 * Cardinality(Range(a) \cap Range(b)))
            \div Max(Cardinality(Range(a)), Cardinality(Range(b)))

\* The queries put to the text search.
Queries == { <<"hello", "world">>, <<"hello", "world", "second">>, <<"second">> }

\* store_text_embedding, lines 160-171: the payload of a section-title point.
SectionPayload(video_id, section) ==
    [video_id |-> video_id, text |-> section.title, type |-> "text",
     section_id |-> section.id, content_type |-> "section_title",
     start_time |-> section.start_time, end_time |-> section.end_time]

\* process_video_text_embeddings, lines 253-287: one point per section title.
\* With Qdrant unreachable the first upsert raises and nothing is stored.
process_video_text_embeddings(video_id, qdrant_up) ==
    LET sections == DbSections(video_id) IN
    /\ Len(qdrant_text) + Len(qdrant_visual) + Len(sections) <= MaxPoints
    /\ qdrant_text' =
         IF qdrant_up
           THEN qdrant_text \o [i \in 1..Len(sections) |->
                                   SectionPayload(video_id, sections[i])]
           ELSE qdrant_text
    /\ UNCHANGED <<indexVars, qdrant_visual, found>>
    /\ UNCHANGED notQdrant

\* Stable sort by score, highest first.
InsertByScore(sorted, x) ==
    LET k == Cardinality({i \in 1..Len(sorted) : sorted[i].score >= x.score}) IN
    SubSeq(sorted, 1, k) \o <<x>> \o SubSeq(sorted, k + 1, Len(sorted))

RECURSIVE SortByScoreFrom(_, _)
SortByScoreFrom(sorted, rest) ==
    IF rest = <<>> THEN sorted
    ELSE SortByScoreFrom(InsertByScore(sorted, Head(rest)), Tail(rest))

SortByScore(s) == SortByScoreFrom(<<>>, s)

\* The sub-sequence of s whose elements satisfy Test.
RECURSIVE SelectSeqIdx(_, _, _)
SelectSeqIdx(s, keep, i) ==
    IF i > Len(s) THEN <<>>
    ELSE (IF i \in keep THEN <<s[i]>> ELSE <<>>) \o SelectSeqIdx(s, keep, i + 1)

\* search_text_embeddings, lines 323-367, with Qdrant reachable: the `limit`
\* best points of "text_embeddings", filtered by video_id when it is truthy.
search_text_embeddings(query, video_id, limit) ==
    LET hit(i) == [id |-> i, score |-> TextScore(query, qdrant_text[i].text),
                   metadata |-> qdrant_text[i]]
        keep == {i \in 1..Len(qdrant_text) :
                    video_id = 0 \/ qdrant_text[i].video_id = video_id}
        all == SelectSeqIdx([i \in 1..Len(qdrant_text) |-> hit(i)], keep, 1)
    IN Prefix(SortByScore(all), limit)

\* RAGChatService.__init__, lines 46 and 48 (the threshold in percent).
TextSearchLimit == 5
RelevanceThreshold == 70

\* A variant that keeps every result of the search, whatever its score.
AllTextResults(query, video_id) ==
    search_text_embeddings(query, video_id, TextSearchLimit)

\* retrieve_relevant_context, lines 80-91: the text results kept.
RelevantTextResults(query, video_id) ==
    LET text_results == search_text_embeddings(query, video_id, TextSearchLimit) IN
    SelectSeqIdx(text_results,
                 {i \in 1..Len(text_results) : text_results[i].score >= RelevanceThreshold}, 1)

\* retrieve_relevant_context, lines 72-115.  A search failure or an unknown
\* video (get_video_info, line 63) is re-raised as Exception.
retrieve_relevant_context(query, video_id, qdrant_up) ==
    /\ last' = [Call("retrieve_relevant_context", video_id, <<>>, NoResult,
                     IF qdrant_up /\ video_id \in DbVideos THEN "ok" ELSE "raised",
                     <<>>)
                  EXCEPT !.query = query,
                         !.hits = IF qdrant_up /\ video_id \in DbVideos
                                    THEN RelevantTextResults(query, video_id)
                                    ELSE <<>>]
    /\ UNCHANGED <<chroma, qdrant_text, qdrant_visual, found>>
    /\ UNCHANGED notQdrant

QdrantInit ==
    /\ qdrant_text = <<>>
    /\ qdrant_visual = <<>>

QdrantNext ==
    \/ \E v \in VideoIds, up \in BOOLEAN : process_video_text_embeddings(v, up)
    \/ \E q \in Queries, v \in VideoIds \cup {UnknownVideoId}, up \in BOOLEAN :
         retrieve_relevant_context(q, v, up)

----------------------------------------------------------------------------
(* VisualSearchService: frame search by a text query *)

\* The rows of the frames table for a video, in insertion order.  tags: the
\* words the image shows, which stand for its CLIP embedding.
\* Video 2 holds the frames of test_search_by_timestamp (55, 65 and 75 s).
DbFrames(video_id) ==
    IF video_id = 2
      THEN << [id |-> 201, video_id |-> 2, timestamp |-> 55,
               tags |-> <<"hello">>, on_disk |-> TRUE],
              [id |-> 202, video_id |-> 2, timestamp |-> 65,
               tags |-> <<"hello", "world", "second">>, on_disk |-> TRUE],
              [id |-> 203, video_id |-> 2, timestamp |-> 75,
               tags |-> <<"second">>, on_disk |-> FALSE] >>
      ELSE << [id |-> 100 * video_id + 2, video_id |-> video_id, timestamp |-> 60,
               tags |-> <<"hello", "world", "second">>, on_disk |-> TRUE],
              [id |-> 100 * video_id + 1, video_id |-> video_id, timestamp |-> 10,
               tags |-> <<"hello">>, on_disk |-> TRUE],
              [id |-> 100 * video_id + 3, video_id |-> video_id, timestamp |-> 90,
               tags |-> <<"second">>, on_disk |-> FALSE] >>

\* store_visual_embedding, lines 193-250: the payload of a frame point; image
\* is the vector stored next to it.
VisualPayload(video_id, frame) ==
    [video_id |-> video_id, image_path |-> frame.id, type |-> "visual",
     frame_id |-> frame.id, timestamp |-> frame.timestamp,
     content_type |-> "video_frame", image |-> frame.tags]

\* process_video_visual_embeddings, lines 289-321: one point per frame whose
\* file exists.  With Qdrant unreachable the first upsert raises.
process_video_visual_embeddings(video_id, qdrant_up) ==
    LET frames == DbFrames(video_id)
        stored == SelectSeqIdx(frames, {i \in 1..Len(frames) : frames[i].on_disk}, 1)
    IN
    /\ Len(qdrant_text) + Len(qdrant_visual) + Len(stored) <= MaxPoints
    /\ qdrant_visual' =
         IF qdrant_up
           THEN qdrant_visual \o [i \in 1..Len(stored) |-> VisualPayload(video_id, stored[i])]
           ELSE qdrant_visual
    /\ UNCHANGED <<indexVars, qdrant_text, found>>
    /\ UNCHANGED notQdrant

\* order_by(Frame.timestamp), line 347.
InsertByTimestamp(sorted, x) ==
    LET k == Cardinality({i \in 1..Len(sorted) : sorted[i].timestamp <= x.timestamp}) IN
    SubSeq(sorted, 1, k) \o <<x>> \o SubSeq(sorted, k + 1, Len(sorted))

RECURSIVE OrderByTimestampFrom(_, _)
OrderByTimestampFrom(sorted, rest) ==
    IF rest = <<>> THEN sorted
    ELSE OrderByTimestampFrom(InsertByTimestamp(sorted, Head(rest)), Tail(rest))

\* _get_frames_in_time_range, lines 337-352.
GetFramesInTimeRange(video_id, start_time, end_time, max_frames) ==
    LET frames == DbFrames(video_id)
        inside == SelectSeqIdx(frames,
                     {i \in 1..Len(frames) : /\ frames[i].timestamp >= start_time
                                              /\ frames[i].timestamp <= end_time}, 1)
    IN IF max_frames = 0 THEN OrderByTimestampFrom(<<>>, inside)
       ELSE Prefix(OrderByTimestampFrom(<<>>, inside), max_frames)

\* max_frames of the lookup at line 63.
SectionFrameLimit == 3

\* One entry of the result list, lines 67-76 and 93-102.
FrameResult(frame, score, match_type, matched_content, section_title) ==
    [frame_id |-> frame.id, timestamp |-> frame.timestamp, image_path |-> frame.id,
     score |-> score, match_type |-> match_type,
     matched_content |-> matched_content, section_title |-> section_title]

\* Lines 55-76: the frames of the section of one text hit.
TextHitFrames(video_id, hit) ==
    LET m == hit.metadata IN
    IF "start_time" \in DOMAIN m /\ "end_time" \in DOMAIN m
      THEN LET frames == GetFramesInTimeRange(video_id, m.start_time, m.end_time,
                                              SectionFrameLimit)
           IN [i \in 1..Len(frames) |->
                 FrameResult(frames[i], hit.score, "text", m.text,
                             IF m.content_type = "section_title" THEN m.text ELSE <<>>)]
      ELSE <<>>

RECURSIVE TextFrameResults(_, _)
TextFrameResults(video_id, hits) ==
    IF hits = <<>> THEN <<>>
    ELSE TextHitFrames(video_id, Head(hits)) \o TextFrameResults(video_id, Tail(hits))

\* _search_by_clip_text, lines 280-335: the `limit` best points of
\* "visual_embeddings" of the video; [] without a CLIP model or on any failure.
search_by_clip_text(video_id, text_query, limit, fault) ==
    LET hit(i) == [id |-> i, score |-> TextScore(text_query, qdrant_visual[i].image),
                   metadata |-> qdrant_visual[i]]
        keep == {i \in 1..Len(qdrant_visual) : qdrant_visual[i].video_id = video_id}
        all == SelectSeqIdx([i \in 1..Len(qdrant_visual) |-> hit(i)], keep, 1)
    IN IF fault = "none" THEN Prefix(SortByScore(all), limit) ELSE <<>>

\* Lines 86-102: the frame of one visual hit, looked up by its id.
VisualHitFrames(video_id, text_query, hit) ==
    LET all == DbFrames(hit.metadata.video_id)
        rows == SelectSeqIdx(all, {i \in 1..Len(all) : all[i].id = hit.metadata.frame_id}, 1)
    IN IF "frame_id" \in DOMAIN hit.metadata /\ rows # <<>>
         THEN <<FrameResult(rows[1], hit.score, "visual", text_query, <<>>)>>
         ELSE <<>>

RECURSIVE VisualFrameResults(_, _, _)
VisualFrameResults(video_id, text_query, hits) ==
    IF hits = <<>> THEN <<>>
    ELSE VisualHitFrames(video_id, text_query, Head(hits))
           \o VisualFrameResults(video_id, text_query, Tail(hits))

\* A variant of _deduplicate_results that keeps the first entry of each frame.
DeduplicateKeepFirst(seen, results) ==
    LET firsts == {i \in 1..Len(results) :
                     \A j \in 1..(i - 1) : results[j].frame_id # results[i].frame_id}
    IN SelectSeqIdx(results, firsts, 1)

\* A variant of _deduplicate_results in which a later entry of a frame
\* always replaces the earlier one.
DeduplicateKeepLast(seen, results) ==
    LET lasts == {i \in 1..Len(results) :
                    \A j \in (i + 1)..Len(results) : results[j].frame_id # results[i].frame_id}
    IN SelectSeqIdx(results, lasts, 1)

\* _deduplicate_results, lines 391-400: a dict keyed by frame_id (it keeps
\* the order of first insertion), an entry replaced by one of a higher score.
RECURSIVE DeduplicateResults(_, _)
DeduplicateResults(seen, results) ==
    IF results = <<>> THEN seen
    ELSE LET r == Head(results)
             at == {i \in 1..Len(seen) : seen[i].frame_id = r.frame_id}
         IN DeduplicateResults(
               IF at = {} THEN Append(seen, r)
               ELSE [i \in 1..Len(seen) |->
                       IF i \in at /\ r.score > seen[i].score THEN r ELSE seen[i]],
               Tail(results))

\* What can go wrong inside one search: no CLIP model was loaded (it is
\* used by the visual part only), or Qdrant cannot be reached.
SearchFaults(search_type) ==
    IF search_type = "text" THEN {"none", "qdrant_down"}
    ELSE {"none", "no_clip_model", "qdrant_down"}
SearchTypes == {"text", "visual", "hybrid"}

\* Lines 44-102: every frame match collected before de-duplication.
CollectedResults(video_id, query, limit, search_type, fault) ==
    (IF search_type \in {"text", "hybrid"}
       THEN TextFrameResults(video_id, search_text_embeddings(query, video_id, limit))
       ELSE <<>>)
    \o (IF search_type \in {"visual", "hybrid"}
          THEN VisualFrameResults(video_id, query,
                                  search_by_clip_text(video_id, query, limit, fault))
          ELSE <<>>)

\* The record of one search: its arguments, the response (total_results and
\* results, lines 106-112) and, as history, the matches it had collected.
Found(op, video_id, query, limit, search_type, fault, response, results, collected) ==
    [op |-> op, video_id |-> video_id, query |-> query, limit |-> limit,
     search_type |-> search_type, fault |-> fault, response |-> response,
     total_results |-> Len(results), results |-> results, collected |-> collected,
     target_timestamp |-> 0, time_window |-> 0]
NoFound == Found("none", 0, <<>>, 0, "", "none", "", <<>>, <<>>)

\* search_by_text_query, lines 26-115.  A failure of the text search is
\* re-raised (line 114); a failure of the CLIP search only empties its part.
search_by_text_query(video_id, query, limit, search_type, fault) ==
    LET results == CollectedResults(video_id, query, limit, search_type, fault)
        unique_results == DeduplicateResults(<<>>, results)
        sorted_results == Prefix(SortByScore(unique_results), limit)
    IN
    /\ found' = IF search_type \in {"text", "hybrid"} /\ fault = "qdrant_down"
                  THEN Found("search_by_text_query", video_id, query, limit,
                             search_type, fault, "raised", <<>>, <<>>)
                  ELSE Found("search_by_text_query", video_id, query, limit,
                             search_type, fault, "ok", sorted_results, results)
    /\ UNCHANGED <<chroma, last, qdrant_text, qdrant_visual>>
    /\ UNCHANGED notQdrant

SearchInit == found = NoFound

SearchNext ==
    \/ \E v \in VideoIds, up \in BOOLEAN : process_video_text_embeddings(v, up)
    \/ \E v \in VideoIds, up \in BOOLEAN : process_video_visual_embeddings(v, up)
    \/ \E v \in VideoIds, q \in Queries, limit \in 1..MaxLimit,
          t \in SearchTypes :
         \E f \in SearchFaults(t) : search_by_text_query(v, q, limit, t, f)

----------------------------------------------------------------------------
(* VisualSearchService: frame search around a timestamp *)

\* The default of `limit`, line 179.
DefaultLimit == 10

\* The arguments search_by_timestamp is called with: whole seconds, and
\* windows of an even number of seconds, so that time_window / 2 is whole.
TargetTimestamps == {0, 10, 55, 60, 70, 90}
TimeWindows == {0, 20, 40, 200}
TimestampLimits == (1..MaxLimit) \cup {DefaultLimit}

Abs(x) == IF x < 0 THEN 0 - x ELSE x

\* Lines 204-218: the entry of one frame, its score in percent.
TemporalResult(frame, timestamp, time_window) ==
    LET time_distance == Abs(frame.timestamp - timestamp) IN
    [frame_id |-> frame.id, timestamp |-> frame.timestamp, image_path |-> frame.id,
     score |-> Max(0, 100 - (100 * time_distance) \div (time_window \div 2)),
     match_type |-> "temporal", matched_content |-> timestamp,
     time_distance |-> time_distance]

\* search_by_timestamp, lines 175-233.  With time_window = 0 the score of the
\* first frame found divides by zero (line 207); the ZeroDivisionError is
\* re-raised as Exception (line 233).
search_by_timestamp(video_id, timestamp, time_window, limit) ==
    LET start_time == Max(0, timestamp - time_window \div 2)
        end_time == timestamp + time_window \div 2
        frames == GetFramesInTimeRange(video_id, start_time, end_time, limit)
        results == [i \in 1..Len(frames) |->
                      TemporalResult(frames[i], timestamp, time_window)]
    IN
    /\ found' = [ (IF time_window = 0 /\ frames # <<>>
                     THEN Found("search_by_timestamp", video_id, <<>>, limit,
                                "timestamp", "none", "raised", <<>>, <<>>)
                     ELSE Found("search_by_timestamp", video_id, <<>>, limit,
                                "timestamp", "none", "ok",
                                OrderByTimestampFrom(<<>>, results), <<>>))
                  EXCEPT !.target_timestamp = timestamp, !.time_window = time_window ]
    /\ UNCHANGED <<indexVars, qdrant_text, qdrant_visual>>
    /\ UNCHANGED notQdrant

TimestampNext ==
    \E v \in VideoIds, t \in TargetTimestamps, w \in TimeWindows, limit \in TimestampLimits :
        search_by_timestamp(v, t, w, limit)

----------------------------------------------------------------------------
(* The three vector searches called on their own *)

\* What a search can meet: Qdrant cannot be reached, the collection was never
\* created (_initialize_collections only warns, lines 88-89), or no CLIP
\* model was loaded (_load_clip_model only warns, lines 63-64).
StoreFaults == {"none", "qdrant_down", "no_collection", "no_clip_model"}

\* video_id arguments: 0 stands for None (no filter).
OptionalVideoIds == 0..MaxVideoId

\* The images a visual search is given, as the words they show.
QueryImages == { <<"hello">>, <<"second">> }

\* search_visual_embeddings, lines 369-413, once the query embedding exists:
\* the `limit` best points of "visual_embeddings".
search_visual_embeddings(image, video_id, limit) ==
    LET hit(i) == [id |-> i, score |-> TextScore(image, qdrant_visual[i].image),
                   metadata |-> qdrant_visual[i]]
        keep == {i \in 1..Len(qdrant_visual) :
                    video_id = 0 \/ qdrant_visual[i].video_id = video_id}
        all == SelectSeqIdx([i \in 1..Len(qdrant_visual) |-> hit(i)], keep, 1)
    IN Prefix(SortByScore(all), limit)

\* A call of EmbeddingService.search_text_embeddings, lines 323-367: any
\* failure of the client is re-raised as Exception (lines 366-367).  The
\* sentence-transformer model does not depend on CLIP.
SearchTextEmbeddings(query, video_id, limit, fault) ==
    /\ found' = IF fault \in {"qdrant_down", "no_collection"}
                  THEN Found("search_text_embeddings", video_id, query, limit,
                             "text", fault, "raised", <<>>, <<>>)
                  ELSE Found("search_text_embeddings", video_id, query, limit,
                             "text", fault, "ok",
                             search_text_embeddings(query, video_id, limit), <<>>)
    /\ UNCHANGED <<indexVars, qdrant_text, qdrant_visual>>
    /\ UNCHANGED notQdrant

\* A call of EmbeddingService.search_visual_embeddings, lines 369-413:
\* generate_visual_embedding raises without a CLIP model (line 122), and any
\* failure is re-raised as Exception (lines 412-413).
SearchVisualEmbeddings(image, video_id, limit, fault) ==
    /\ found' = IF fault # "none"
                  THEN Found("search_visual_embeddings", video_id, image, limit,
                             "visual", fault, "raised", <<>>, <<>>)
                  ELSE Found("search_visual_embeddings", video_id, image, limit,
                             "visual", fault, "ok",
                             search_visual_embeddings(image, video_id, limit), <<>>)
    /\ UNCHANGED <<indexVars, qdrant_text, qdrant_visual>>
    /\ UNCHANGED notQdrant

\* A call of VisualSearchService._search_by_clip_text, lines 280-335.
SearchByClipText(video_id, text_query, limit, fault) ==
    /\ found' = Found("_search_by_clip_text", video_id, text_query, limit,
                      "visual", fault, "ok",
                      search_by_clip_text(video_id, text_query, limit, fault), <<>>)
    /\ UNCHANGED <<indexVars, qdrant_text, qdrant_visual>>
    /\ UNCHANGED notQdrant

EmbedNext ==
    \/ \E v \in VideoIds, up \in BOOLEAN : process_video_text_embeddings(v, up)
    \/ \E v \in VideoIds, up \in BOOLEAN : process_video_visual_embeddings(v, up)
    \/ \E q \in Queries, v \in OptionalVideoIds, limit \in 1..MaxLimit, f \in StoreFaults :
         SearchTextEmbeddings(q, v, limit, f)
    \/ \E im \in QueryImages, v \in OptionalVideoIds, limit \in 1..MaxLimit, f \in StoreFaults :
         SearchVisualEmbeddings(im, v, limit, f)
    \/ \E q \in Queries, v \in VideoIds, limit \in 1..MaxLimit, f \in StoreFaults :
         SearchByClipText(v, q, limit, f)

----------------------------------------------------------------------------
(* SectionGenerator: sections and the three strategies *)

\* Times are exact fractions num/den with den > 0 (the code's floats).
Frac(n, d) == [num |-> n, den |-> d]
FracLess(a, b) == a.num * b.den < b.num * a.den
FracEq(a, b) == a.num * b.den = b.num * a.den
FracAdd(a, b) ==
    IF a.den = b.den THEN Frac(a.num + b.num, a.den)
    ELSE Frac(a.num * b.den + b.num * a.den, a.den * b.den)
FracSub(a, b) ==
    IF a.den = b.den THEN Frac(a.num - b.num, a.den)
    ELSE Frac(a.num * b.den - b.num * a.den, a.den * b.den)
Zero == Frac(0, 1)

\* A title: a text, for the "Section k" titles of line 241 the number k, and
\* the number of " & More" suffixes merge_sections has put behind it.
Title(text, k) == [text |-> text, k |-> k, more |-> 0]

\* Section, lines 40-48 (confidence in percent).
Section(title, start_time, end_time, duration, confidence, strategy) ==
    [title |-> title, start_time |-> start_time, end_time |-> end_time,
     duration |-> duration, confidence |-> confidence, strategy_used |-> strategy]

\* SectionConfig, lines 28-36, over a few values of each field.
Strategies == {"ai_analysis", "time_based", "fallback"}
SectionConfigs ==
    [min_sections : {0, 3}, max_sections : {3, 8}, default_duration : {300},
     min_section_duration : {0, 30}, strategy : Strategies]

\* The duration argument: 0 stands for None.
Durations == {0, 20, 60, 100}

\* A variant that starts every section one second late.
CreateSectionsWithGaps(titles, duration, strategy) ==
    LET n == Len(titles) IN
    [i \in 1..n |->
        Section(titles[i], Frac((i - 1) * duration + n, n), Frac(i * duration, n),
                Frac(duration, n),
                IF strategy = "ai_analysis" THEN 100 ELSE 80, strategy)]

\* _create_sections_with_timing, lines 317-335: section i is
\* [i * duration / n, (i + 1) * duration / n).
CreateSectionsWithTiming(titles, duration, strategy) ==
    LET n == Len(titles) IN
    [i \in 1..n |->
        Section(titles[i], Frac((i - 1) * duration, n), Frac(i * duration, n),
                Frac(duration, n),
                IF strategy = "ai_analysis" THEN 100 ELSE 80, strategy)]

\* FALLBACK_SECTIONS, lines 86-91, and _create_fallback_sections, lines 337-340.
FALLBACK_SECTIONS ==
    << Title("Introduction", 0), Title("Main Content", 0),
       Title("Key Points", 0), Title("Conclusion", 0) >>

CreateFallbackSections(duration) ==
    CreateSectionsWithTiming(FALLBACK_SECTIONS, duration, "fallback")

\* SectionGenerationResult, lines 51-58.
SectionResult(success, sections, total_duration, strategy, error) ==
    [success |-> success, sections |-> sections, total_duration |-> total_duration,
     strategy_used |-> strategy, error_message |-> error]

\* A stripped line of the model's answer: its leading marker ("1. ", "- ",
\* the bullet U+2022 and a space, or none) and the text after it, with the
\* length and the shape of that text.
AnswerLine(marker, text, len, shape) ==
    [marker |-> marker, text |-> text, len |-> len, shape |-> shape]

AnswerLines ==
    { AnswerLine("numbered", "Introduction and Overview", 25, "words"),
      AnswerLine("dash", "Main Topic Discussion", 21, "words"),
      AnswerLine("numbered", "Section 3", 9, "generic"),
      AnswerLine("numbered", "42", 2, "numeric"),
      AnswerLine("bullet", "Section 3", 9, "generic"),
      AnswerLine("none", "A title of 101 characters", 101, "words"),
      AnswerLine("none", "", 0, "blank") }

Answers == UNION { [1..n -> AnswerLines] : n \in 0..MaxAnswerLines }

\* Lines 298 and 301.
MinTitleLength == 3
MaxTitleLength == 100

\* A text with the bullet U+2022 and a space in front of it.
WithBullet(text) ==
    IF text = "Section 3" THEN "U+2022 Section 3" ELSE "U+2022 Main Topic Discussion"

\* _clean_section_title, lines 283-294: "1. " goes (line 287) and "-" goes
\* (lines 288-289); line 288 looks for the three characters U+00E2 U+20AC
\* U+00A2, which a line starting with the bullet U+2022 does not start with,
\* so the bullet stays, and what follows it is no longer at the start of the
\* title.
CleanSectionTitle(line) ==
    IF line.marker = "bullet"
      THEN [text |-> WithBullet(line.text), len |-> line.len + 2, shape |-> "words"]
      ELSE [text |-> line.text, len |-> line.len, shape |-> line.shape]

\* _is_valid_section_title, lines 296-315, on a cleaned title.
IsValidSectionTitle(title) ==
    /\ title.len >= MinTitleLength
    /\ title.len <= MaxTitleLength
    /\ title.shape = "words"

\* _parse_ai_response, lines 259-281: the valid titles, none when there are
\* fewer than min_sections, at most max_sections of them.
ParseAiResponse(config, lines) ==
    LET valid == SelectSeqIdx(lines, {i \in 1..Len(lines) :
                                        lines[i].shape # "blank"
                                        /\ IsValidSectionTitle(CleanSectionTitle(lines[i]))}, 1)
        section_titles == [i \in 1..Len(valid) |->
                             Title(CleanSectionTitle(valid[i]).text, 0)]
    IN IF Len(section_titles) < config.min_sections THEN <<>>
       ELSE Prefix(section_titles, config.max_sections)

\* What the QA chain gives _generate_sections_with_ai: no chain (line 169),
\* an exception from the chain, or an answer.
AiOutcome(kind, lines) == [kind |-> kind, lines |-> lines]
AiOutcomes ==
    {AiOutcome("no_chain", <<>>), AiOutcome("raises", <<>>)}
        \cup {AiOutcome("answer", a) : a \in Answers}

\* Line 137: the chain is asked only under the AI_ANALYSIS strategy.
AiOutcomesFor(config) ==
    IF config.strategy = "ai_analysis" THEN AiOutcomes
    ELSE {AiOutcome("not_called", <<>>)}

\* _generate_sections_with_ai, lines 165-216.
GenerateSectionsWithAi(config, duration, ai) ==
    LET section_titles == ParseAiResponse(config, ai.lines) IN
    IF ai.kind \in {"no_chain", "not_called"}
      THEN SectionResult(FALSE, <<>>, duration, "ai_analysis", "No QA chain available")
    ELSE IF ai.kind = "raises"
      THEN SectionResult(FALSE, <<>>, duration, "ai_analysis", "exception")
    ELSE IF section_titles = <<>>
      THEN SectionResult(FALSE, <<>>, duration, "ai_analysis", "Failed to parse AI response")
    ELSE SectionResult(TRUE,
                       CreateSectionsWithTiming(section_titles, duration, "ai_analysis"),
                       duration, "ai_analysis", "")

\* Lines 223-226: the number of time-based sections.
NumSections(config, duration) ==
    Max(config.min_sections,
        Min(config.max_sections, duration \div config.min_section_duration))

\* _generate_sections_time_based raises ZeroDivisionError at line 225 or 228.
TimeBasedRaises(config, duration) ==
    config.min_section_duration = 0 \/ NumSections(config, duration) = 0

\* _generate_sections_time_based, lines 218-257, when it does not raise.
GenerateSectionsTimeBased(config, duration) ==
    LET num_sections == NumSections(config, duration)
        titles == [i \in 1..num_sections |->
                     IF i = 1 THEN Title("Introduction", 0)
                     ELSE IF i = num_sections THEN Title("Conclusion", 0)
                     ELSE Title("Section", i)]
    IN SectionResult(TRUE, CreateSectionsWithTiming(titles, duration, "time_based"),
                     duration, "time_based", "")

\* A variant in which the AI result is never taken.
DropsAiResult(result) == FALSE

\* Line 139: the result of the AI stage is returned.
KeepsAiResult(result) == result.success

\* generate_sections, lines 116-163: the stages attempted, in order, and the
\* result returned.
GenerateSections(config, duration, ai) ==
    LET total_duration == IF duration = 0 THEN config.default_duration ELSE duration
        ai_stage == IF config.strategy = "ai_analysis" THEN <<"ai_analysis">> ELSE <<>>
        ai_result == GenerateSectionsWithAi(config, total_duration, ai)
    IN IF ai_stage # <<>> /\ KeepsAiResult(ai_result)
         THEN [stages |-> ai_stage, result |-> ai_result]
       ELSE IF TimeBasedRaises(config, total_duration)
         THEN [stages |-> ai_stage \o <<"time_based", "fallback">>,
               result |-> SectionResult(FALSE, CreateFallbackSections(total_duration),
                                        total_duration, "fallback",
                                        "Error generating sections")]
       ELSE [stages |-> ai_stage \o <<"time_based">>,
             result |-> GenerateSectionsTimeBased(config, total_duration)]

generate_sections(config, duration, ai) ==
    /\ fn_name = "none"
    /\ fn_name' = "generate_sections"
    /\ fn_args' = [config |-> config, duration |-> duration, ai |-> ai]
    /\ fn_ret' = GenerateSections(config, duration, ai)
    /\ UNCHANGED notFn

RECURSIVE SumDurations(_)
SumDurations(sections) ==
    IF sections = <<>> THEN Zero
    ELSE FracAdd(Head(sections).duration, SumDurations(Tail(sections)))

\* Lines 411-422: the issues of section i (counted from 0 in the messages).
RECURSIVE SectionIssues(_, _)
SectionIssues(sections, i) ==
    IF i > Len(sections) THEN <<>>
    ELSE (IF ~FracLess(sections[i].start_time, sections[i].end_time)
            THEN <<[issue |-> "invalid timing", section |-> i - 1]>> ELSE <<>>)
         \o (IF ~FracLess(Zero, sections[i].duration)
               THEN <<[issue |-> "zero or negative duration", section |-> i - 1]>> ELSE <<>>)
         \o (IF i < Len(sections) /\ FracLess(sections[i + 1].start_time, sections[i].end_time)
               THEN <<[issue |-> "overlap", section |-> i - 1]>> ELSE <<>>)
         \o SectionIssues(sections, i + 1)

\* validate_sections, lines 393-430: (is_valid, issues).
validate_sections(sections) ==
    LET total_duration == FracSub(sections[Len(sections)].end_time, sections[1].start_time)
        expected_duration == SumDurations(sections)
        diff == FracSub(total_duration, expected_duration)
        issues == SectionIssues(sections, 1)
                    \o (IF 10 * Abs(diff.num) > diff.den
                          THEN <<[issue |-> "durations don't match", section |-> 0]>>
                          ELSE <<>>)
    IN IF sections = <<>>
         THEN [is_valid |-> FALSE, issues |-> <<[issue |-> "No sections provided", section |-> 0]>>]
         ELSE [is_valid |-> issues = <<>>, issues |-> issues]

\* Lines 451-463: the section a group is merged into.
MergedSection(group) ==
    LET first == group[1]
        final == group[Len(group)]
        lowest == CHOOSE c \in {group[i].confidence : i \in 1..Len(group)} :
                     \A i \in 1..Len(group) : group[i].confidence >= c
    IN Section([first.title EXCEPT !.more = @ + 1], first.start_time, final.end_time,
               FracSub(final.end_time, first.start_time), lowest, first.strategy_used)

\* merge_sections, lines 432-465: groups of len(sections) // max_sections.
MergeSections(sections, max_sections) ==
    LET n == Len(sections)
        sections_per_merge == n \div max_sections
        groups == (n + sections_per_merge - 1) \div sections_per_merge
    IN IF n <= max_sections THEN sections
       ELSE [g \in 1..groups |->
               MergedSection(SubSeq(sections, (g - 1) * sections_per_merge + 1,
                                    Min(g * sections_per_merge, n)))]

\* The section lists handed to merge_sections: n sections over a duration.
MergeInputs ==
    { CreateSectionsWithTiming([i \in 1..n |-> Title("Part", i)], d, st) :
        n \in 1..MaxMergeInput, d \in Durations \ {0}, st \in Strategies }

merge_sections(sections, max_sections) ==
    /\ fn_name = "none"
    /\ fn_name' = "merge_sections"
    /\ fn_args' = [sections |-> sections, max_sections |-> max_sections]
    /\ fn_ret' = MergeSections(sections, max_sections)
    /\ UNCHANGED notFn

SectionNext ==
    \/ /\ fn_name = "none"
       /\ \E config \in SectionConfigs, d \in Durations :
            \E ai \in AiOutcomesFor(config) : generate_sections(config, d, ai)
    \/ /\ fn_name = "none"
       /\ \E sections \in MergeInputs, m \in 1..MaxMergeTarget :
            merge_sections(sections, m)

----------------------------------------------------------------------------
(* RAGChatService.chat: retrieval, prompt, answer and citations *)

\* RAGChatService.format_timestamp, lines 53-57: MM:SS as <<minutes, seconds>>.
format_timestamp(seconds) == <<seconds \div 60, seconds % 60>>

\* Lines 159-164 and 228-233: the label start-end of a text result.
TextTimestampInfo(metadata) ==
    [start |-> format_timestamp(metadata.start_time),
     end |-> format_timestamp(metadata.end_time)]

\* RetrievalContext, lines 24-29, and the outcome of retrieve_relevant_context
\* (lines 72-115): search_text_embeddings raises with Qdrant unreachable,
\* get_video_info raises for an unknown video; visual_results stays empty.
RetrievalContext(raised, text_results, visual_results, video_id) ==
    [raised |-> raised, text_results |-> text_results,
     visual_results |-> visual_results, video_info |-> video_id]

RetrieveRelevantContext(query, video_id, qdrant_up) ==
    IF qdrant_up /\ video_id \in DbVideos
      THEN RetrievalContext(FALSE, RelevantTextResults(query, video_id), <<>>, video_id)
      ELSE RetrievalContext(TRUE, <<>>, <<>>, 0)

\* A variant that always goes on to the language model.
ContextAlwaysFound(context) == TRUE

\* Line 287, negated: some result is left to answer from.
ContextFound(context) ==
    context.text_results # <<>> \/ context.visual_results # <<>>

\* build_context_prompt, lines 152-181: the numbered entries of the prompt,
\* text results first; the numbering restarts for the visual ones.
BuildContextPrompt(context) ==
    [i \in 1..Len(context.text_results) |->
        [number |-> i, type |-> "text",
         label |-> TextTimestampInfo(context.text_results[i].metadata),
         text |-> context.text_results[i].metadata.text]]
    \o [i \in 1..Len(context.visual_results) |->
        [number |-> i, type |-> "visual",
         label |-> format_timestamp(context.visual_results[i].metadata.timestamp),
         text |-> <<>>]]

\* A variant that cites the text results only.
ExtractTextCitations(context) ==
    [i \in 1..Len(context.text_results) |->
        LET result == context.text_results[i] IN
        [id |-> i, type |-> "text", content |-> result.metadata.text,
         timestamp |-> TextTimestampInfo(result.metadata),
         relevance_score |-> result.score,
         section_id |-> result.metadata.section_id,
         content_type |-> result.metadata.content_type]]

\* extract_citations, lines 216-261.
ExtractCitations(context) ==
    [i \in 1..Len(context.text_results) |->
        LET result == context.text_results[i] IN
        [id |-> i, type |-> "text", content |-> result.metadata.text,
         timestamp |-> TextTimestampInfo(result.metadata),
         relevance_score |-> result.score,
         section_id |-> result.metadata.section_id,
         content_type |-> result.metadata.content_type]]
    \o [i \in 1..Len(context.visual_results) |->
        LET result == context.visual_results[i] IN
        [id |-> Len(context.text_results) + i, type |-> "visual",
         timestamp |-> format_timestamp(result.metadata.timestamp),
         relevance_score |-> result.score,
         frame_id |-> result.metadata.frame_id,
         image_path |-> result.metadata.image_path]]

\* generate_response, lines 196-214: the answer, or an apology when the
\* completion call raises.
GenerateResponse(llm_up) == IF llm_up THEN "answer" ELSE "apology"

\* ChatResponse, lines 31-36, with what the call did: whether an exception
\* left chat, the entries of the prompt and the number of completion calls.
ChatResponse(raised, response, citations, context, conversation_id, prompt, llm_calls) ==
    [raised |-> raised, response |-> response, citations |-> citations,
     context_used |-> context, conversation_id |-> conversation_id,
     prompt |-> prompt, llm_calls |-> llm_calls]

\* chat, lines 263-347.  conversation_id "" stands for None.
Chat(query, video_id, conversation_id, qdrant_up, llm_up) ==
    LET context == RetrieveRelevantContext(query, video_id, qdrant_up)
        id == IF conversation_id = "" THEN "chat_generated" ELSE conversation_id
        prompt == BuildContextPrompt(context)
    IN IF context.raised
         THEN IF video_id \in DbVideos
                THEN ChatResponse(FALSE, "error", <<>>,
                                  RetrievalContext(FALSE, <<>>, <<>>, video_id),
                                  id, <<>>, 0)
                ELSE ChatResponse(TRUE, "", <<>>, context, "", <<>>, 0)
       ELSE IF ~ContextFound(context)
         THEN ChatResponse(FALSE, "no_relevant_content", <<>>, context, id, <<>>, 0)
       ELSE ChatResponse(FALSE, GenerateResponse(llm_up), ExtractCitations(context),
                         context, id, prompt, 1)

ConversationIds == {"", "conv"}

\* process_video_text_embeddings, lines 253-287, with Qdrant reachable, as
\* often as the section titles of a video are embedded before a chat.
embed_section_titles(video_id) ==
    LET sections == DbSections(video_id) IN
    /\ fn_name = "none"
    /\ Len(qdrant_text) + Len(sections) <= MaxChatPoints
    /\ qdrant_text' = qdrant_text \o [i \in 1..Len(sections) |->
                                         SectionPayload(video_id, sections[i])]
    /\ UNCHANGED <<indexVars, qdrant_visual, found>>
    /\ UNCHANGED notQdrant

chat(query, video_id, conversation_id, qdrant_up, llm_up) ==
    /\ fn_name = "none"
    /\ fn_name' = "chat"
    /\ fn_args' = [query |-> query, video_id |-> video_id,
                   conversation_id |-> conversation_id,
                   qdrant_up |-> qdrant_up, llm_up |-> llm_up,
                   points |-> qdrant_text]
    /\ fn_ret' = Chat(query, video_id, conversation_id, qdrant_up, llm_up)
    /\ UNCHANGED notFn

\* Results as the searches return them, for calls of extract_citations on a
\* context that has visual results too.
SampleTextResults ==
    LET hit(k, score) == [id |-> k, score |-> score,
                          metadata |-> SectionPayload(1, DbSections(1)[k])]
    IN {<<>>, <<hit(1, 100)>>, <<hit(1, 100), hit(2, 70)>>, <<hit(2, 90), hit(1, 80)>>}

SampleVisualResults ==
    LET hit(k, score) == [id |-> k, score |-> score,
                          metadata |-> VisualPayload(1, DbFrames(1)[k])]
    IN {<<>>, <<hit(1, 95)>>, <<hit(2, 85), hit(1, 75)>>}

extract_citations(context) ==
    /\ fn_name = "none"
    /\ fn_name' = "extract_citations"
    /\ fn_args' = [context |-> context]
    /\ fn_ret' = ChatResponse(FALSE, "", ExtractCitations(context), context, "",
                              BuildContextPrompt(context), 0)
    /\ UNCHANGED notFn

ChatNext ==
    \/ \E v \in VideoIds : embed_section_titles(v)
    \/ \E q \in Queries, v \in {0} \cup VideoIds \cup {UnknownVideoId}, c \in ConversationIds,
          qdrant_up \in BOOLEAN, llm_up \in BOOLEAN :
         chat(q, v, c, qdrant_up, llm_up)
    \/ \E t \in SampleTextResults, v \in SampleVisualResults :
         extract_citations(RetrievalContext(FALSE, t, v, 1))

----------------------------------------------------------------------------
(* VisualSearchService._deduplicate_results called on its own *)

\* The entries a result list is made of: a frame, a score (in percent) and
\* the rest of the entry (here its match_type).
ResultEntries ==
    [frame_id : 1..2, score : {70, 80, 95}, match_type : {"text", "visual"}]

ResultLists == UNION { [1..n -> ResultEntries] : n \in 0..MaxResults }

\* _deduplicate_results(results), lines 391-400.
deduplicate_results(results) ==
    /\ fn_name = "none"
    /\ fn_name' = "_deduplicate_results"
    /\ fn_args' = results
    /\ fn_ret' = DeduplicateResults(<<>>, results)
    /\ UNCHANGED notFn

FnInit ==
    /\ fn_name = "none"
    /\ fn_args = <<>>
    /\ fn_ret = <<>>

DedupNext == \E results \in ResultLists : deduplicate_results(results)

----------------------------------------------------------------------------
(* RAGChatService.conversations: the history kept per conversation id *)

\* Line 328: the most messages a conversation keeps.
MaxHistory == 10

\* ChatMessage, lines 17-22: the user message carries the query, the
\* assistant message the response text (which quotes the query).
ChatMessage(role, content) == [role |-> role, content |-> content]
UserMessage(query) == ChatMessage("user", <<query>>)
AssistantMessage(query, response) == ChatMessage("assistant", <<response, query>>)

\* The conversation ids the callers pass, and the ones line 274 makes up.
GivenIds == {"a", "b"}
GeneratedId(k) == IF k = 1 THEN "chat_1" ELSE IF k = 2 THEN "chat_2" ELSE "chat_3"
GeneratedIds == {GeneratedId(k) : k \in 1..3}

\* s[-n:]
LastN(s, n) == IF Len(s) > n THEN SubSeq(s, Len(s) - n + 1, Len(s)) ELSE s

\* A variant that keeps the oldest messages.
KeepOldest(messages) ==
    IF Len(messages) > MaxHistory THEN Prefix(messages, MaxHistory) ELSE messages

\* A variant that drops one message when the history is too long.
DropOne(messages) ==
    IF Len(messages) > MaxHistory THEN Tail(messages) ELSE messages

\* Lines 328-329: the history is cut to its last 10 messages.
TruncateHistory(messages) ==
    IF Len(messages) > MaxHistory THEN LastN(messages, MaxHistory) ELSE messages

\* dict.get(key, []) (line 277)
HistoryOf(convs, id) == IF id \in DOMAIN convs THEN convs[id] ELSE <<>>

\* Lines 322-329: both messages are appended to the history of id, which is
\* created when missing, and the history is cut.
StoreTurn(convs, id, user_message, assistant_message) ==
    [k \in DOMAIN convs \cup {id} |->
        IF k = id
          THEN TruncateHistory(HistoryOf(convs, id) \o <<user_message, assistant_message>>)
          ELSE convs[k]]

\* The same without the cut: every message appended so far.
AppendTurn(log, id, user_message, assistant_message) ==
    [k \in DOMAIN log \cup {id} |->
        IF k = id THEN HistoryOf(log, id) \o <<user_message, assistant_message>>
        ELSE log[k]]

RECURSIVE SumLen(_, _)
SumLen(f, keys) ==
    IF keys = {} THEN 0
    ELSE LET k == CHOOSE x \in keys : TRUE IN Len(f[k]) + SumLen(f, keys \ {k})

\* The last call on the service.  history: what line 277 read; before: the
\* conversations when the call began.
Turn(op, id, stored, raised, response, history, before) ==
    [op |-> op, conversation_id |-> id, stored |-> stored, raised |-> raised,
     response |-> response, history |-> history, before |-> before]
NoTurn == Turn("none", "", FALSE, FALSE, "", <<>>, <<>>)

\* One chat call, lines 263-347, run from start to end, with its outcome
\* taken from Chat and its effect on self.conversations.
chat_turn(query, video_id, conversation_id, qdrant_up, llm_up) ==
    LET generated == Cardinality(DOMAIN conversations \cap GeneratedIds)
        id == IF conversation_id = "" THEN GeneratedId(generated + 1) ELSE conversation_id
        r == Chat(query, video_id, conversation_id, qdrant_up, llm_up)
        stored == ~r.raised /\ r.response # "error"
        user_message == UserMessage(query)
        assistant_message == AssistantMessage(query, r.response)
    IN /\ stored => SumLen(appended, DOMAIN appended) + 2 <= MaxMessages
       /\ conversation_id = "" => generated < MaxGenerated
       /\ conversations' =
            IF stored THEN StoreTurn(conversations, id, user_message, assistant_message)
            ELSE conversations
       /\ appended' =
            IF stored THEN AppendTurn(appended, id, user_message, assistant_message)
            ELSE appended
       /\ turn' = Turn("chat", id, stored, r.raised, r.response,
                       HistoryOf(conversations, id), conversations)
       /\ UNCHANGED <<threads, requests>>
       /\ UNCHANGED notConv

\* clear_conversation, lines 366-373.
clear_conversation(conversation_id) ==
    LET present == conversation_id \in DOMAIN conversations
        others == DOMAIN conversations \ {conversation_id}
    IN /\ conversations' = [k \in others |-> conversations[k]]
       /\ appended' = [k \in others |-> appended[k]]
       /\ turn' = Turn("clear_conversation", conversation_id, FALSE, FALSE,
                       IF present THEN "True" ELSE "False",
                       HistoryOf(conversations, conversation_id), conversations)
       /\ UNCHANGED <<threads, requests>>
       /\ UNCHANGED notConv

\* The queries of the chat calls.
ChatQueries == { <<"hello", "world">>, <<"second">> }

\* Two threads calling chat on one service with the same conversation id.
\* The state of a thread: where it is in lines 322-329, the number of its
\* call and the slice it has read at line 329.
ThreadIds == {1, 2}
SharedId == "a"
ThreadState(at, call, slice) == [pc |-> at, call |-> call, slice |-> slice]

\* A thread enters chat; retrieval and generation (lines 279-306) touch
\* nothing shared, so the call stands at line 322.
thread_begin(t) ==
    /\ threads[t].pc = "idle"
    /\ threads[t].call < MaxThreadCalls
    /\ threads' = [threads EXCEPT ![t] = ThreadState("check", @.call + 1, <<>>)]
    /\ UNCHANGED <<conversations, appended, turn, requests>>
    /\ UNCHANGED notConv

\* Line 322: the membership test.
thread_check(t) ==
    /\ threads[t].pc = "check"
    /\ threads' = [threads EXCEPT ![t].pc =
                      IF SharedId \in DOMAIN conversations THEN "extend" ELSE "create"]
    /\ UNCHANGED <<conversations, appended, turn, requests>>
    /\ UNCHANGED notConv

\* Line 323: an empty list is stored under the id.
thread_create(t) ==
    /\ threads[t].pc = "create"
    /\ conversations' = [k \in DOMAIN conversations \cup {SharedId} |->
                            IF k = SharedId THEN <<>> ELSE conversations[k]]
    /\ threads' = [threads EXCEPT ![t].pc = "extend"]
    /\ UNCHANGED <<appended, turn, requests>>
    /\ UNCHANGED notConv

\* Line 325: both messages of the call are appended.
thread_extend(t) ==
    LET call == <<t, threads[t].call>> IN
    /\ threads[t].pc = "extend"
    /\ conversations' = [conversations EXCEPT ![SharedId] =
                            @ \o <<UserMessage(call), AssistantMessage(call, "answer")>>]
    /\ threads' = [threads EXCEPT ![t].pc = "len"]
    /\ UNCHANGED <<appended, turn, requests>>
    /\ UNCHANGED notConv

\* Line 328 and the right-hand side of line 329: the last 10 are read.
thread_slice(t) ==
    /\ threads[t].pc = "len"
    /\ threads' = [threads EXCEPT ![t] =
                      IF Len(conversations[SharedId]) > MaxHistory
                        THEN ThreadState("assign", @.call,
                                         LastN(conversations[SharedId], MaxHistory))
                        ELSE ThreadState("idle", @.call, <<>>)]
    /\ UNCHANGED <<conversations, appended, turn, requests>>
    /\ UNCHANGED notConv

\* The assignment of line 329.
thread_assign(t) ==
    /\ threads[t].pc = "assign"
    /\ conversations' = [conversations EXCEPT ![SharedId] = threads[t].slice]
    /\ threads' = [threads EXCEPT ![t] = ThreadState("idle", @.call, <<>>)]
    /\ UNCHANGED <<appended, turn, requests>>
    /\ UNCHANGED notConv

ThreadNext ==
    \E t \in ThreadIds :
        \/ thread_begin(t)
        \/ thread_check(t)
        \/ thread_create(t)
        \/ thread_extend(t)
        \/ thread_slice(t)
        \/ thread_assign(t)

\* RAGChatService.__init__, line 51: a new service has no conversation.
NewConversations == <<>>

\* A request answered by routes.py: the route, the conversation id, the
\* status, the messages returned (history route) or stored by the service of
\* the request (chat route), and the history the chat call was given.
Request(route, id, status, messages, history) ==
    [route |-> route, conversation_id |-> id, status |-> status,
     messages |-> messages, history |-> history]

\* POST /chat/{video_id}, routes.py lines 148-191.  The 404 for an unknown
\* video is raised inside the try and comes out as a 500.  The service is
\* built for the request (line 171).
routes_chat_with_video(query, video_id, conversation_id, qdrant_up) ==
    LET service == NewConversations
        id == IF conversation_id = "" THEN GeneratedId(1) ELSE conversation_id
        r == Chat(query, video_id, conversation_id, qdrant_up, TRUE)
        stored == ~r.raised /\ r.response # "error"
        after == IF stored
                   THEN StoreTurn(service, id, UserMessage(query),
                                  AssistantMessage(query, r.response))
                   ELSE service
    IN /\ Len(requests) < MaxRequests
       /\ requests' = Append(requests,
            IF video_id \notin DbVideos
              THEN Request("chat", id, 500, <<>>, <<>>)
              ELSE Request("chat", id, 200, HistoryOf(after, id), HistoryOf(service, id)))
       /\ UNCHANGED <<conversations, appended, turn, threads>>
       /\ UNCHANGED notConv

\* GET /chat/history/{conversation_id}, routes.py lines 220-239, on a
\* service built for the request (line 229).
routes_get_conversation_history(conversation_id) ==
    LET service == NewConversations IN
    /\ Len(requests) < MaxRequests
    /\ requests' = Append(requests,
         Request("history", conversation_id, 200, HistoryOf(service, conversation_id), <<>>))
    /\ UNCHANGED <<conversations, appended, turn, threads>>
    /\ UNCHANGED notConv

\* DELETE /chat/history/{conversation_id}, routes.py lines 241-262:
\* clear_conversation on a service built for the request (line 250); its
\* False becomes a 404 raised inside the try, which comes out as a 500.
routes_clear_conversation_history(conversation_id) ==
    LET service == NewConversations IN
    /\ Len(requests) < MaxRequests
    /\ requests' = Append(requests,
         Request("clear", conversation_id,
                 IF conversation_id \in DOMAIN service THEN 200 ELSE 500, <<>>, <<>>))
    /\ UNCHANGED <<conversations, appended, turn, threads>>
    /\ UNCHANGED notConv

RoutesNext ==
    \/ \E q \in ChatQueries, v \in {1, UnknownVideoId}, c \in GivenIds \cup {""},
          qdrant_up \in BOOLEAN :
         routes_chat_with_video(q, v, c, qdrant_up)
    \/ \E c \in GivenIds : routes_get_conversation_history(c)
    \/ \E c \in GivenIds : routes_clear_conversation_history(c)

ConversationNext ==
    \/ \E q \in ChatQueries, v \in {1, UnknownVideoId}, c \in GivenIds \cup {""},
          qdrant_up \in BOOLEAN :
         chat_turn(q, v, c, qdrant_up, TRUE)
    \/ \E c \in GivenIds : clear_conversation(c)

----------------------------------------------------------------------------
(* QAManager: the cached QA chains, and the collections they are built on *)

\* QAConfig, lines 25-33: the fields a chain depends on.
QAConfig(model_name, retrieval_k) == [model_name |-> model_name, retrieval_k |-> retrieval_k]
DefaultQAConfig == QAConfig("gpt-4", 3)
QAConfigs == {DefaultQAConfig, QAConfig("gpt-3.5-turbo", 5)}

\* The QAManager's self.config, the model self.llm was built for
\* (_initialize_llm, lines 85-96), and whether the last update_config
\* returned.
ManagerConfig(config, llm, settled) == [config |-> config, llm |-> llm, settled |-> settled]

\* A RetrievalQA chain (lines 125-139): the documents of the collection it
\* was opened on, its retrieval_k and its model.  None is a chain not built.
Chain(docs, retrieval_k, llm) ==
    [built |-> TRUE, docs |-> docs, retrieval_k |-> retrieval_k, llm |-> llm]
None == [built |-> FALSE, docs |-> <<>>, retrieval_k |-> 0, llm |-> ""]

\* load_vector_store, lines 336-365: None without the directory, otherwise a
\* store over what the directory holds.
LoadVectorStore(coll) ==
    IF coll.dir = "absent" THEN [loaded |-> FALSE, docs |-> <<>>]
    ELSE [loaded |-> TRUE, docs |-> coll.docs]

\* The body of get_qa_chain, lines 115-146, run on a cache miss.
BuildQaChain(coll, manager) ==
    LET vectorstore == LoadVectorStore(coll) IN
    IF ~vectorstore.loaded THEN None
    ELSE Chain(vectorstore.docs, manager.config.retrieval_k, manager.llm)

\* @lru_cache(maxsize=32), line 104: a call with a video_id seen before
\* returns what the first call returned, None included.
GetQaChain(cache, coll, manager, video_id) ==
    IF video_id \in DOMAIN cache THEN cache[video_id]
    ELSE BuildQaChain(coll, manager)

CachePut(cache, video_id, chain) ==
    [v \in DOMAIN cache \cup {video_id} |-> IF v = video_id THEN chain ELSE cache[v]]

\* A variant of clear_cache that leaves the cache as it is.
KeepCache(cache) == cache

\* clear_cache, lines 271-274: get_qa_chain.cache_clear().
ClearCache(cache) == <<>>

\* get_cache_info, lines 276-284: current_size.
CurrentSize(cache) == Cardinality(DOMAIN cache)

\* The process_transcript calls that may run at once, and where each is
\* inside _create_vector_store (lines 308-334): idle, past the rmtree and
\* mkdir of lines 316-318 ("cleared"), or inside Chroma.from_documents
\* (lines 321-326, "writing"), with the chunks it writes.
WriterIds == {1, 2}
Writer(at, video_id, docs) == [pc |-> at, video_id |-> video_id, docs |-> docs]

\* Whether some process_transcript call is inside _create_vector_store for
\* the video.
Reindexing(video_id) ==
    \E w \in DOMAIN writers : writers[w].pc # "idle" /\ writers[w].video_id = video_id

\* The last call: the operation, the video, what it returned, the directory
\* of the video when it was called, all directories before a delete, whether
\* a re-indexing of the video was under way, and whether the last
\* update_config had returned.
QaCall(op, video_id, result, coll, before, busy, settled) ==
    [op |-> op, video_id |-> video_id, result |-> result, coll |-> coll,
     before |-> before, busy |-> busy, settled |-> settled]
NoQaCall == QaCall("none", 0, None, NoCollection, <<>>, FALSE, TRUE)

\* The last update_config returned (or none was made).
Settled == qa_config.settled

get_qa_chain(video_id) ==
    LET chain == GetQaChain(qa_cache, chroma[video_id], qa_config, video_id) IN
    /\ qa_cache' = CachePut(qa_cache, video_id, chain)
    /\ qa_last' = QaCall("get_qa_chain", video_id, chain, chroma[video_id], <<>>,
                         Reindexing(video_id), Settled)
    /\ UNCHANGED <<qa_config, writers, indexVars>>
    /\ UNCHANGED notQa

\* ask_question, lines 148-213, with a question that is not blank.  A chain
\* opened on a directory that has since been removed or rewritten may still
\* answer from what it read, or fail: view is which.
ask_question(video_id, view) ==
    LET chain == GetQaChain(qa_cache, chroma[video_id], qa_config, video_id)
        stale == chain.built /\ chain.docs # chroma[video_id].docs
        answer == IF ~chain.built THEN [success |-> FALSE, sources |-> <<>>]
                  ELSE IF stale /\ view = "error" THEN [success |-> FALSE, sources |-> <<>>]
                  ELSE [success |-> TRUE, sources |-> Prefix(chain.docs, chain.retrieval_k)]
    IN /\ (view = "error") => stale
       /\ qa_cache' = CachePut(qa_cache, video_id, chain)
       /\ qa_last' = QaCall("ask_question", video_id,
                            [chain EXCEPT !.built = answer.success, !.docs = answer.sources],
                            chroma[video_id], <<>>, Reindexing(video_id), Settled)
       /\ UNCHANGED <<qa_config, writers, indexVars>>
       /\ UNCHANGED notQa

\* update_config, lines 286-296.  When _initialize_llm raises (line 95) the
\* new config is already stored and the cache is not cleared.
update_config(new_config, llm_ok) ==
    /\ qa_config' = ManagerConfig(new_config,
                                  IF llm_ok THEN new_config.model_name ELSE qa_config.llm,
                                  llm_ok)
    /\ qa_cache' = IF llm_ok THEN ClearCache(qa_cache) ELSE qa_cache
    /\ qa_last' = QaCall("update_config", 0,
                         [None EXCEPT !.built = llm_ok], NoCollection, <<>>, FALSE,
                         llm_ok)
    /\ UNCHANGED <<writers, indexVars>>
    /\ UNCHANGED notQa

\* delete_vector_store, lines 421-444: True when the directory is absent or
\* was removed, False when rmtree raised.
delete_vector_store(video_id, rmtree_ok) ==
    LET present == chroma[video_id].dir # "absent" IN
    /\ ~rmtree_ok => present
    /\ chroma' = IF present /\ rmtree_ok
                   THEN [chroma EXCEPT ![video_id] = NoCollection]
                   ELSE chroma
    /\ qa_last' = QaCall("delete_vector_store", video_id,
                         [None EXCEPT !.built = rmtree_ok], chroma[video_id], chroma,
                         Reindexing(video_id), Settled)
    /\ UNCHANGED <<qa_config, qa_cache, writers, last>>
    /\ UNCHANGED notQa

load_vector_store(video_id) ==
    LET vectorstore == LoadVectorStore(chroma[video_id]) IN
    /\ qa_last' = QaCall("load_vector_store", video_id,
                         [None EXCEPT !.built = vectorstore.loaded, !.docs = vectorstore.docs],
                         chroma[video_id], <<>>, Reindexing(video_id), Settled)
    /\ UNCHANGED <<qa_config, qa_cache, writers, indexVars>>
    /\ UNCHANGED notQa

\* check_vector_store_exists, lines 367-378.
check_vector_store_exists(video_id) ==
    /\ qa_last' = QaCall("check_vector_store_exists", video_id,
                         [None EXCEPT !.built = IsVideoProcessed(chroma[video_id])],
                         chroma[video_id], <<>>, Reindexing(video_id), Settled)
    /\ UNCHANGED <<qa_config, qa_cache, writers, indexVars>>
    /\ UNCHANGED notQa

\* The transcripts indexed next to the QAManager.
QaSegLists == {segs \in IndexSegLists : Len(segs) \in 1..2 /\ CreateDocuments(0, segs) # <<>>}

QaVideoIds == {1, 2}

\* _create_vector_store, lines 313-318: the directory is removed and made
\* again, whatever another call has put there.
writer_clear(w, video_id, segments) ==
    /\ writers[w].pc = "idle"
    /\ chroma' = [chroma EXCEPT ![video_id] = Collection("empty", <<>>, FALSE)]
    /\ writers' = [writers EXCEPT ![w] =
                     Writer("cleared", video_id,
                            CreateChunks(video_id, CreateDocuments(video_id, segments)))]
    /\ UNCHANGED <<qa_config, qa_cache, qa_last, last>>
    /\ UNCHANGED notQa

\* Chroma.from_documents, lines 321-326, up to its last chunk: the chunks go
\* into the directory as it is now.
writer_write(w) ==
    LET me == writers[w]
        coll == chroma[me.video_id]
    IN /\ me.pc = "cleared"
       /\ chroma' = [chroma EXCEPT ![me.video_id] =
                        Collection("files", coll.docs \o Prefix(me.docs, Len(me.docs) - 1),
                                   FALSE)]
       /\ writers' = [writers EXCEPT ![w].pc = "writing"]
       /\ UNCHANGED <<qa_config, qa_cache, qa_last, last>>
       /\ UNCHANGED notQa

\* The last chunk is written and _create_vector_store returns.
writer_finish(w) ==
    LET me == writers[w]
        coll == chroma[me.video_id]
    IN /\ me.pc = "writing"
       /\ chroma' = [chroma EXCEPT ![me.video_id] =
                        Collection("files", coll.docs \o Drop(me.docs, Len(me.docs) - 1),
                                   TRUE)]
       /\ writers' = [writers EXCEPT ![w] = Writer("idle", 0, <<>>)]
       /\ UNCHANGED <<qa_config, qa_cache, qa_last, last>>
       /\ UNCHANGED notQa

\* The video whose collection the concurrent calls contend for.
ReindexVideoIds == {1}

ReindexNext ==
    \/ \E w \in WriterIds, v \in ReindexVideoIds, segs \in QaSegLists : writer_clear(w, v, segs)
    \/ \E w \in WriterIds : writer_write(w)
    \/ \E w \in WriterIds : writer_finish(w)
    \/ \E v \in ReindexVideoIds : load_vector_store(v)
    \/ \E v \in ReindexVideoIds : check_vector_store_exists(v)
    \/ \E v \in ReindexVideoIds : get_qa_chain(v)

QaNext ==
    \/ \E v \in QaVideoIds, segs \in QaSegLists : process_transcript(v, segs, "none")
    \/ \E v \in QaVideoIds, ok \in BOOLEAN : delete_vector_store(v, ok)
    \/ \E v \in QaVideoIds : get_qa_chain(v)
    \/ \E v \in QaVideoIds, view \in {"content", "error"} : ask_question(v, view)
    \/ \E c \in QAConfigs, ok \in BOOLEAN : update_config(c, ok)
    \/ \E v \in QaVideoIds : load_vector_store(v)
    \/ \E v \in QaVideoIds : check_vector_store_exists(v)

----------------------------------------------------------------------------
(* Specifications *)

ConvInit ==
    /\ conversations = <<>>
    /\ appended = <<>>
    /\ turn = NoTurn
    /\ threads = [t \in ThreadIds |-> ThreadState("idle", 0, <<>>)]
    /\ requests = <<>>

QaInit ==
    /\ qa_config = ManagerConfig(DefaultQAConfig, DefaultQAConfig.model_name, TRUE)
    /\ qa_cache = <<>>
    /\ qa_last = NoQaCall
    /\ writers = [w \in WriterIds |-> Writer("idle", 0, <<>>)]

Init ==
    /\ ExtractInit /\ ParseInit /\ IndexInit /\ QdrantInit /\ SearchInit /\ FnInit
    /\ ConvInit /\ QaInit

\* The same with the extractor constructed the usual way (Gemini available).
InitGemini == Init /\ use_gemini

\* The transcript extractor serving successive fetch_transcript calls.
SpecExtract == Init /\ [][ExtractNext]_vars

\* Each transcript parser applied to one document of up to MaxLines lines.
SpecParse == InitGemini /\ [][ParseNext]_vars

\* Indexing calls and the two chat-route endpoints.
SpecIndex == InitGemini /\ [][IndexNext]_vars

\* Indexing calls, section-title embedding and the text retrieval of the chat.
RagNext ==
    \/ \E v \in VideoIds, segs \in IndexSegLists :
         \E f \in FaultsFor(segs) : process_transcript(v, segs, f)
    \/ QdrantNext

SpecRag == InitGemini /\ [][RagNext]_vars

\* Embedding of section titles and frames, and frame searches by text query.
SpecSearch == InitGemini /\ [][SearchNext]_vars

\* Embedding of section titles and frames, and the three vector searches.
SpecEmbed == InitGemini /\ [][EmbedNext]_vars

\* Embedding of section titles, then one call of RAGChatService.chat or of
\* extract_citations.
SpecChat == InitGemini /\ [][ChatNext]_vars

\* Successive chat and clear_conversation calls on one RAGChatService.
SpecConversation == InitGemini /\ [][ConversationNext]_vars

\* Indexing and deleting collections next to one QAManager and its cache.
SpecQa == InitGemini /\ [][QaNext]_vars

\* process_transcript calls running at once with reads of the collections.
SpecReindex == InitGemini /\ [][ReindexNext]_vars

\* Requests to the chat endpoints of routes.py, one after the other.
SpecRoutes == InitGemini /\ [][RoutesNext]_vars

\* Concurrent chat calls of two threads on one RAGChatService.
SpecThreads == InitGemini /\ [][ThreadNext]_vars

\* One call of generate_sections or merge_sections.
SpecSections == InitGemini /\ [][SectionNext]_vars

\* Frame searches around a timestamp.
SpecTimestamp == InitGemini /\ [][TimestampNext]_vars

\* _deduplicate_results applied to one result list of up to MaxResults entries.
SpecDedup == InitGemini /\ [][DedupNext]_vars

----------------------------------------------------------------------------
(* Claims about TranscriptExtractor *)

SourceRank(s) == CASE s = "gemini" -> 1 [] s = "api" -> 2 [] s = "ytdlp" -> 3 [] OTHER -> 4

LastAttempt == attempts[Len(attempts)]
LastOutcome == outcomes[Len(outcomes)]
CallOver == pc \in {"done", "idle"} /\ calls > 0 /\ ret.kind # "raised"

\* C1: fetch_transcript attempts its sources in the fixed order gemini, api,
\* ytdlp (gemini being part of the chain when use_gemini is set); a source is
\* attempted only after every earlier one raised or returned nothing; nothing
\* is attempted after a source yielded segments, and those segments are what
\* the call returns; a source that raised or returned nothing is always
\* followed by the next source of the order.
C1_OrderedFallback ==
    /\ Len(attempts) = Len(outcomes)
    /\ Len(attempts) > 0 => attempts[1] = (IF use_gemini THEN "gemini" ELSE "api")
    /\ \A i \in 1..(Len(attempts) - 1) :
          /\ SourceRank(attempts[i + 1]) = SourceRank(attempts[i]) + 1
          /\ outcomes[i].kind \in {"raised", "empty"}
    /\ \A i \in 1..Len(attempts) :
          /\ SourceRank(attempts[i]) <= 3
          /\ outcomes[i].kind = "segments" =>
                /\ i = Len(attempts)
                /\ pc \in {"done", "idle"}
                /\ ret = Returned(outcomes[i].segs)
    /\ \A i \in 1..Len(attempts) :
          (outcomes[i].kind \in {"raised", "empty"} /\ attempts[i] # "ytdlp"
             /\ pc \in {"exhausted", "done", "idle"}) => i < Len(attempts)
    /\ ret.kind = "raised" => attempts = <<>>
    /\ (CallOver /\ ret.segs # <<>>) =>
          /\ Len(attempts) > 0
          /\ LastOutcome.kind = "segments"
    /\ (CallOver /\ ret.segs = <<>>) =>
          /\ Len(attempts) > 0
          /\ LastAttempt = "ytdlp"
          /\ \A i \in 1..Len(attempts) : outcomes[i].kind \in {"raised", "empty"}

\* C1 witness: the first source returned nothing, the second raised, and the
\* third one's segments were returned.
C1_Witness ==
    /\ pc = "done"
    /\ attempts = <<"gemini", "api", "ytdlp">>
    /\ outcomes[1].kind = "empty"
    /\ outcomes[2].kind = "raised"
    /\ outcomes[3].kind = "segments"
    /\ ret = Returned(outcomes[3].segs)

\* C2: fetch_transcript never raises to its caller, whatever the video_url.
C2_NeverRaises == ret.kind # "raised"

\* C3: the empty sequence is returned only after the contextual-synthesis
\* fallback was attempted as the fourth and last stage.
C3_ContextualFallbackLast ==
    (pc = "done" /\ ret = Returned(<<>>)) =>
        (Len(attempts) = 4 /\ LastAttempt = "contextual")

\* C4: when analyze_video_with_gemini or extract_subtitles_with_ytdlp has
\* returned, no temporary directory it created is left on disk.  Each method
\* is one step, so every state is one in which neither is running.
C4_TempFilesDeleted == tmpfs = {}

----------------------------------------------------------------------------
(* Claims about TranscriptParser *)

\* A timestamp of one of the formats the parsers are to convert: SS, MM:SS or
\* H:MM:SS, each field a number.
WellFormedTimestamp(ts) ==
    LET parts == SplitOn(ts, ":") IN
    Len(parts) \in 1..3 /\ \A i \in 1..Len(parts) : IsInt(parts[i])

\* The same with an optional millisecond fraction.
WellFormedVttTimestamp(ts) ==
    LET dot == SplitOn(ts, ".") IN
    /\ Len(dot) \in 1..2
    /\ WellFormedTimestamp(dot[1])
    /\ Len(dot) = 2 => IsInt(dot[2])

\* The timestamped lines of a Gemini answer that carry content, and those
\* among them whose start time is well formed.
GeminiStamped(doc) ==
    {i \in 1..Len(doc) : doc[i].bracketed /\ "-" \in Range(doc[i].stamp)
                            /\ doc[i].content # <<>>}
GeminiGood(doc) ==
    {i \in GeminiStamped(doc) : WellFormedTimestamp(SplitOn(doc[i].stamp, "-")[1])}
GeminiPlain(doc) ==
    {i \in 1..Len(doc) : ~(doc[i].bracketed /\ HasDash(doc[i])) /\ doc[i].long}

\* The cues of a VTT file followed by a text line, and the well-formed ones.
VttCues(doc) ==
    {i \in 1..Len(doc) : doc[i].cue /\ i + 1 <= Len(doc)
                            /\ doc[i + 1].text # <<>> /\ ~doc[i + 1].markup}
VttGood(doc) == {i \in VttCues(doc) : WellFormedVttTimestamp(doc[i].stamp)}

\* C5: a line or cue whose timestamp cannot be parsed contributes no segment,
\* and every other line contributes exactly its own: the transcript has one
\* segment per well-formed timestamped line (plus the untimed long lines of a
\* Gemini answer), none for a malformed one.
C5_MalformedSkipped ==
    /\ p_kind = "gemini" =>
          Len(p_out) = Cardinality(GeminiGood(p_in)) + Cardinality(GeminiPlain(p_in))
    /\ p_kind = "vtt" => Len(p_out) = Cardinality(VttGood(p_in))

----------------------------------------------------------------------------
(* Claims about VectorStoreManager and the chat routes *)

\* The last call went through VectorStoreManager.process_transcript.
Indexed(call) == call.op = "process_transcript"

\* C6: every result of process_transcript with success = False carries
\* chunks_count = 0, whichever step failed (empty segment list, no valid
\* text, chunking failure, vector-store write failure).
C6_FailureHasZeroChunks ==
    (Indexed(last) /\ ~last.result.success) => last.result.chunks_count = 0

\* C7: when process_transcript(video_id, segments) returns success, the
\* collection of video_id holds exactly the chunks derived from this call's
\* segments, numbered chunk_id 0..n-1, whatever the directory held before,
\* and the collection of every other video is as it was.
C7_FullReindexStep ==
    (Indexed(last') /\ last'.result.success) =>
        LET v == last'.video_id
            docs == chroma'[v].docs
        IN /\ docs = CreateChunks(v, CreateDocuments(v, last'.segments))
           /\ \A i \in 1..Len(docs) : docs[i].chunk_id = i - 1
           /\ Len(docs) = last'.result.chunks_count
           /\ \A w \in VideoIds \ {v} : chroma'[w] = chroma[w]

C7_FullReindex == [][C7_FullReindexStep]_vars

\* A successful re-index of a video whose directory held different documents,
\* while another video is indexed too.
C7_Witness ==
    /\ Indexed(last) /\ last.result.success
    /\ last.before # <<>>
    /\ last.before # chroma[last.video_id].docs
    /\ \E w \in VideoIds \ {last.video_id} : chroma[w].docs # <<>>

\* C8: a directory left by a write that did not run to its end is not
\* reported as processed: the process endpoint does not answer "Video already
\* processed" for it and the chat endpoint does not go on to answer from it.
C8_PartialNotProcessed ==
    /\ (last.op = "process_with_langchain" /\ last.response = "Video already processed")
          => chroma[last.video_id].complete
    /\ (last.op = "chat_with_video" /\ last.response \notin {"404", "422"})
          => chroma[last.video_id].complete

\* The chunks of a completely written collection that a query matches.
MatchingChunks(query, video_id) ==
    LET docs == chroma[video_id].docs IN
    IF chroma[video_id].complete
      THEN {docs[i] : i \in {j \in 1..Len(docs) :
                                TextScore(query, docs[j].page_content) >= RelevanceThreshold}}
      ELSE {}

\* C9: once process_transcript has succeeded for a video, the text search of
\* the RAG chat for that video returns every indexed chunk the query matches,
\* with the chunk's approximate_start_time.
C9_IndexThenSearch ==
    (last.op = "retrieve_relevant_context" /\ last.response = "ok") =>
        \A chunk \in MatchingChunks(last.query, last.video_id) :
            \E i \in 1..Len(last.hits) :
                LET m == last.hits[i].metadata IN
                /\ "approximate_start_time" \in DOMAIN m
                /\ m.approximate_start_time = chunk.approximate_start_time
                /\ m.chunk_id = chunk.chunk_id

----------------------------------------------------------------------------
(* Claims about VisualSearchService *)

\* A hybrid search that returned.
HybridReturned ==
    /\ found.op = "search_by_text_query"
    /\ found.search_type = "hybrid"
    /\ found.response = "ok"

\* Every text-derived and visual-derived frame match of the last search.
HybridMatches == found.collected

\* The highest score among the matches of one frame.
BestScore(matches, frame_id) ==
    CHOOSE sc \in {matches[i].score : i \in {j \in 1..Len(matches) :
                                              matches[j].frame_id = frame_id}} :
        \A i \in 1..Len(matches) :
            matches[i].frame_id = frame_id => matches[i].score <= sc

\* C10: a hybrid search_by_text_query returns entries drawn from the text
\* and visual matches, each tagged with its match_type, at most one per
\* frame_id and carrying the highest score of that frame, in non-increasing
\* score order, cut to the `limit` best frames; total_results is the length
\* of the list.
C10_HybridSearch ==
    HybridReturned =>
        LET res == found.results
            matches == HybridMatches
            frames == {matches[i].frame_id : i \in 1..Len(matches)}
            shown == {res[i].frame_id : i \in 1..Len(res)}
        IN /\ \A i \in 1..Len(res) :
                /\ res[i].match_type \in {"text", "visual"}
                /\ \E j \in 1..Len(matches) : matches[j] = res[i]
                /\ res[i].score = BestScore(matches, res[i].frame_id)
           /\ \A i, j \in 1..Len(res) :
                /\ (i # j) => res[i].frame_id # res[j].frame_id
                /\ (i < j) => res[i].score >= res[j].score
           /\ Len(res) = Min(found.limit, Cardinality(frames))
           /\ \A f \in frames \ shown :
                \A i \in 1..Len(res) : res[i].score >= BestScore(matches, f)
           /\ found.total_results = Len(res)

\* A hybrid search in which one frame is matched through a section title and
\* through its image with different scores, the later match scoring higher,
\* and in which there are more matched frames than `limit`.
C10_Witness ==
    /\ HybridReturned
    /\ Len(found.results) >= 2
    /\ \E i, j \in 1..Len(HybridMatches) :
          /\ i < j
          /\ HybridMatches[i].frame_id = HybridMatches[j].frame_id
          /\ HybridMatches[i].match_type = "text"
          /\ HybridMatches[j].match_type = "visual"
          /\ HybridMatches[i].score < HybridMatches[j].score
    /\ Cardinality({HybridMatches[i].frame_id : i \in 1..Len(HybridMatches)}) > found.limit
    /\ \E i \in 1..Len(found.results) : found.results[i].match_type = "text"
    /\ \E i \in 1..Len(found.results) : found.results[i].match_type = "visual"

\* The positions of the entries of a list that belong to one frame.
EntriesOf(results, frame_id) ==
    {i \in 1..Len(results) : results[i].frame_id = frame_id}

\* C11: _deduplicate_results returns exactly one entry per frame_id of its
\* input, and that entry is an entry of the input for that frame_id (all its
\* fields together) whose score is the highest among the input entries of
\* that frame_id.
C11_DeduplicateKeepsBest ==
    fn_name = "_deduplicate_results" =>
        /\ {fn_ret[i].frame_id : i \in 1..Len(fn_ret)}
             = {fn_args[i].frame_id : i \in 1..Len(fn_args)}
        /\ \A i, j \in 1..Len(fn_ret) :
             fn_ret[i].frame_id = fn_ret[j].frame_id => i = j
        /\ \A i \in 1..Len(fn_ret) :
             /\ \E k \in EntriesOf(fn_args, fn_ret[i].frame_id) : fn_args[k] = fn_ret[i]
             /\ \A k \in EntriesOf(fn_args, fn_ret[i].frame_id) :
                  fn_args[k].score <= fn_ret[i].score

\* The list of the unit test: frame 1 twice, the higher score second, and
\* another frame in between.
C11_Witness ==
    /\ fn_name = "_deduplicate_results"
    /\ Len(fn_args) = 3
    /\ fn_args[1].frame_id = 1 /\ fn_args[1].score = 80
    /\ fn_args[2].frame_id = 2 /\ fn_args[2].score = 70
    /\ fn_args[3].frame_id = 1 /\ fn_args[3].score = 95
    /\ Len(fn_ret) = 2
    /\ fn_ret[1] = fn_args[3]

\* The frames of the searched video inside the window of the last search.
FramesInWindow ==
    LET frames == DbFrames(found.video_id) IN
    {frames[i] : i \in {j \in 1..Len(frames) :
        /\ 2 * frames[j].timestamp >= 2 * found.target_timestamp - found.time_window
        /\ 2 * frames[j].timestamp <= 2 * found.target_timestamp + found.time_window}}

\* C12: search_by_timestamp(video_id, t, w, limit) returns frames of video_id
\* with timestamp in [t - w/2, t + w/2], all of them when there are at most
\* `limit`, each with score max(0, 1 - |timestamp - t| / (w/2)) in [0, 1], in
\* ascending order of timestamp.
C12_TimestampRangeFilter ==
    found.op = "search_by_timestamp" =>
        LET res == found.results
            t == found.target_timestamp
            w == found.time_window
        IN /\ found.response = "ok"
           /\ \A i \in 1..Len(res) :
                /\ \E f \in FramesInWindow :
                     f.id = res[i].frame_id /\ f.timestamp = res[i].timestamp
                /\ res[i].score \in 0..100
                /\ res[i].score * w = Max(0, 100 * (w - 2 * Abs(res[i].timestamp - t)))
           /\ Cardinality(FramesInWindow) <= found.limit =>
                {res[i].frame_id : i \in 1..Len(res)} = {f.id : f \in FramesInWindow}
           /\ \A i, j \in 1..Len(res) : i < j => res[i].timestamp <= res[j].timestamp

\* C13: with frames at 55, 65 and 75, search_by_timestamp with target 60,
\* time_window 20 and limit 10 returns exactly 3 results, all with score in
\* [0, 1], in ascending order of timestamp.
C13_TimestampExample ==
    (/\ found.op = "search_by_timestamp"
     /\ found.video_id = 2
     /\ found.target_timestamp = 60
     /\ found.time_window = 20
     /\ found.limit = DefaultLimit) =>
        /\ found.response = "ok"
        /\ Len(found.results) = 3
        /\ \A i \in 1..Len(found.results) : found.results[i].score \in 0..100
        /\ \A i, j \in 1..Len(found.results) :
             i < j => found.results[i].timestamp <= found.results[j].timestamp

\* The last call was one of the three vector searches.
VectorSearched ==
    found.op \in {"search_text_embeddings", "search_visual_embeddings", "_search_by_clip_text"}

\* C14: a vector search against a missing or unreachable collection returns
\* an empty list and raises nothing, whichever of search_text_embeddings,
\* search_visual_embeddings and _search_by_clip_text it is.
C14_MissingCollectionIsEmpty ==
    (VectorSearched /\ found.fault \in {"qdrant_down", "no_collection"}) =>
        found.response = "ok" /\ found.results = <<>>

\* The last call was generate_sections.
Generated == fn_name = "generate_sections"

\* The duration generate_sections works with (line 133).
GeneratedDuration ==
    IF fn_args.duration = 0 THEN fn_args.config.default_duration ELSE fn_args.duration

\* The chain gave an answer with enough usable title lines.
AiProducedSections ==
    /\ fn_args.ai.kind = "answer"
    /\ LET usable == {i \in 1..Len(fn_args.ai.lines) :
                         \/ /\ fn_args.ai.lines[i].shape = "words"
                            /\ fn_args.ai.lines[i].len \in MinTitleLength..MaxTitleLength
                         \/ fn_args.ai.lines[i].marker = "bullet"}
       IN Cardinality(usable) >= Max(1, fn_args.config.min_sections)

\* The time-based stage has no section count to divide by.
TimeBasedFailed ==
    \/ fn_args.config.min_section_duration = 0
    \/ /\ fn_args.config.min_sections = 0
       /\ GeneratedDuration < fn_args.config.min_section_duration

\* The stages ran in the order of the chain, each only after the one before it
\* failed, and strategy_used names the last of them.
ChainOrder ==
    LET stages == fn_ret.stages
        ran(stage) == \E i \in 1..Len(stages) : stages[i] = stage
    IN /\ \A i, j \in 1..Len(stages) :
            i < j => <<stages[i], stages[j]>> \in
                        {<<"ai_analysis", "time_based">>, <<"ai_analysis", "fallback">>,
                         <<"time_based", "fallback">>}
       /\ (ran("time_based") /\ ran("ai_analysis")) => ~AiProducedSections
       /\ ran("fallback") => (ran("time_based") /\ TimeBasedFailed)
       /\ fn_ret.result.strategy_used = stages[Len(stages)]
       /\ fn_ret.result.sections # <<>>
       /\ \A i \in 1..Len(fn_ret.result.sections) :
            fn_ret.result.sections[i].strategy_used = fn_ret.result.strategy_used

\* C15 as stated: generate_sections always attempts AI_ANALYSIS first, runs
\* TIME_BASED only after AI_ANALYSIS gave no valid result, uses the FALLBACK
\* templates only after TIME_BASED failed too, and strategy_used names the
\* stage that produced the sections.
C15_ChainStartsWithAi ==
    Generated => (fn_ret.stages[1] = "ai_analysis" /\ ChainOrder)

\* C15: under the AI_ANALYSIS strategy generate_sections attempts AI_ANALYSIS
\* first, under any other configured strategy it starts at TIME_BASED; in both
\* cases a later stage runs only after the one before it failed, FALLBACK only
\* after TIME_BASED raised, and strategy_used names the stage that produced
\* the sections.
C15_FallbackChain ==
    Generated =>
        /\ fn_ret.stages[1] =
             (IF fn_args.config.strategy = "ai_analysis" THEN "ai_analysis" ELSE "time_based")
        /\ (fn_ret.stages = <<"ai_analysis">>) = 
             (fn_args.config.strategy = "ai_analysis" /\ AiProducedSections)
        /\ (fn_ret.stages[Len(fn_ret.stages)] = "fallback") = 
             (fn_ret.stages # <<"ai_analysis">> /\ TimeBasedFailed)
        /\ ChainOrder

\* The whole chain ran: the AI attempt failed, the time-based stage raised and
\* the templates were returned.
C15_Witness ==
    /\ Generated
    /\ fn_ret.stages = <<"ai_analysis", "time_based", "fallback">>
    /\ fn_ret.result.strategy_used = "fallback"
    /\ Len(fn_ret.result.sections) = Len(FALLBACK_SECTIONS)

\* C16: the section list generate_sections returns, whichever strategy
\* produced it, passes validate_sections with (True, []): every section has
\* start_time < end_time, each section ends where the next one starts, the
\* first starts at 0 and the last ends at the total duration.
C16_SectionsValid ==
    Generated =>
        LET sections == fn_ret.result.sections
            n == Len(sections)
        IN /\ validate_sections(sections) = [is_valid |-> TRUE, issues |-> <<>>]
           /\ \A i \in 1..n : FracLess(sections[i].start_time, sections[i].end_time)
           /\ \A i \in 1..(n - 1) : FracEq(sections[i].end_time, sections[i + 1].start_time)
           /\ FracEq(sections[1].start_time, Zero)
           /\ FracEq(sections[n].end_time, Frac(GeneratedDuration, 1))
           /\ fn_ret.result.total_duration = GeneratedDuration

\* Three AI sections over 100 seconds: the boundaries are not whole seconds.
C16_Witness ==
    /\ Generated
    /\ fn_ret.result.strategy_used = "ai_analysis"
    /\ fn_args.duration = 100
    /\ Len(fn_ret.result.sections) = 3
    /\ validate_sections(fn_ret.result.sections).is_valid

\* The last call was merge_sections with more sections than max_sections.
Merged ==
    fn_name = "merge_sections" /\ Len(fn_args.sections) > fn_args.max_sections

\* C17: merge_sections with n > max_sections sections groups adjacent sections
\* into batches of ceil(n / max_sections) and returns one section per batch,
\* from the batch's first start_time to its last end_time and titled from its
\* first member; the result has at most max_sections sections, is in the
\* original order and covers the span of the input.
C17_MergeIntoCeilBatches ==
    Merged =>
        LET sections == fn_args.sections
            n == Len(sections)
            batch == (n + fn_args.max_sections - 1) \div fn_args.max_sections
            batches == (n + batch - 1) \div batch
            merged == fn_ret
        IN /\ Len(merged) = batches
           /\ Len(merged) <= fn_args.max_sections
           /\ \A g \in 1..Len(merged) :
                /\ merged[g].start_time = sections[(g - 1) * batch + 1].start_time
                /\ merged[g].end_time = sections[Min(g * batch, n)].end_time
                /\ merged[g].title.text = sections[(g - 1) * batch + 1].title.text
                /\ merged[g].title.k = sections[(g - 1) * batch + 1].title.k
           /\ \A g \in 1..(Len(merged) - 1) :
                FracEq(merged[g].end_time, merged[g + 1].start_time)
           /\ merged[1].start_time = sections[1].start_time
           /\ merged[Len(merged)].end_time = sections[n].end_time

\* The last call was chat.
Chatted == fn_name = "chat"

\* The retrieval of the last chat went through and none of the stored points
\* of the video reaches the relevance threshold for the query.
NoRelevantResult ==
    /\ Chatted
    /\ fn_args.qdrant_up
    /\ fn_args.video_id \in DbVideos
    /\ \A i \in 1..Len(fn_args.points) :
         fn_args.points[i].video_id = fn_args.video_id =>
            TextScore(fn_args.query, fn_args.points[i].text) < RelevanceThreshold

\* C18: when no retrieved result survives the relevance filter, chat returns
\* the templated "no relevant content" answer with no citation and does not
\* call the language model.
C18_NoContextNoModelCall ==
    NoRelevantResult =>
        /\ ~fn_ret.raised
        /\ fn_ret.response = "no_relevant_content"
        /\ fn_ret.citations = <<>>
        /\ fn_ret.llm_calls = 0

\* Points of the video were retrieved and all fell below the threshold.
C18_Witness ==
    /\ NoRelevantResult
    /\ \E i \in 1..Len(fn_args.points) : fn_args.points[i].video_id = fn_args.video_id
    /\ fn_ret.response = "no_relevant_content"
    /\ fn_ret.llm_calls = 0

\* C19: chat always returns a response with a conversation id and lets no
\* exception reach its caller: a failing language model, a failing retrieval
\* and an unknown video each give a response that is an error or apology
\* string.
C19_ChatAlwaysResponds ==
    Chatted =>
        /\ ~fn_ret.raised
        /\ fn_ret.conversation_id # ""
        /\ (~fn_args.qdrant_up \/ fn_args.video_id \notin DbVideos) =>
              (fn_ret.response = "error" /\ fn_ret.citations = <<>>)
        /\ (fn_ret.llm_calls > 0 /\ ~fn_args.llm_up) => fn_ret.response = "apology"

\* Citations were built: by a chat that called the language model, or by a
\* call of extract_citations.
Cited ==
    \/ Chatted /\ fn_ret.llm_calls > 0
    \/ fn_name = "extract_citations"

\* C20: whenever the language model is called, the citations are one per
\* result in the prompt, in retrieval order with ids 1..n, text results before
\* visual ones, each with the timestamp label and the score of its result.
C20_CitationsFromRetrieval ==
    Cited =>
        LET text_results == fn_ret.context_used.text_results
            visual_results == fn_ret.context_used.visual_results
            retrieved == text_results \o visual_results
            citations == fn_ret.citations
        IN /\ Len(citations) = Len(retrieved)
           /\ Len(fn_ret.prompt) = Len(retrieved)
           /\ \A i \in 1..Len(citations) :
                /\ citations[i].id = i
                /\ citations[i].relevance_score = retrieved[i].score
                /\ citations[i].type = (IF i <= Len(text_results) THEN "text" ELSE "visual")
                /\ citations[i].type = fn_ret.prompt[i].type
                /\ citations[i].timestamp = fn_ret.prompt[i].label
           /\ \A i \in 1..Len(text_results) :
                /\ citations[i].content = text_results[i].metadata.text
                /\ 60 * citations[i].timestamp.start[1] + citations[i].timestamp.start[2]
                     = text_results[i].metadata.start_time
                /\ 60 * citations[i].timestamp.end[1] + citations[i].timestamp.end[2]
                     = text_results[i].metadata.end_time
                /\ citations[i].timestamp.start[2] < 60
           /\ \A i \in 1..Len(visual_results) :
                LET c == citations[Len(text_results) + i] IN
                /\ c.frame_id = visual_results[i].metadata.frame_id
                /\ 60 * c.timestamp[1] + c.timestamp[2] = visual_results[i].metadata.timestamp
           /\ Chatted => (\A i \in 1..Len(retrieved) :
                             retrieved[i].score >= RelevanceThreshold)

\* A chat that called the language model and cites the section 01:00-02:00.
C20_Witness ==
    /\ Chatted
    /\ fn_ret.llm_calls = 1
    /\ Len(fn_ret.citations) >= 1
    /\ fn_ret.citations[1].timestamp = [start |-> <<1, 0>>, end |-> <<2, 0>>]
    /\ fn_ret.citations[1].relevance_score = 100

\* C21: the context chat answers from holds at most text_search_limit text
\* results, each a point of the video asked about with a score of at least
\* the relevance threshold; so every citation has such a score and refers to
\* a section of that video.
C21_ContextOfTheVideo ==
    (Chatted /\ ~fn_ret.raised) =>
        LET text_results == fn_ret.context_used.text_results IN
        /\ Len(text_results) <= TextSearchLimit
        /\ \A i \in 1..Len(text_results) :
             /\ text_results[i].metadata.video_id = fn_args.video_id
             /\ text_results[i].score >= RelevanceThreshold
        /\ \A i \in 1..Len(fn_ret.citations) :
             /\ fn_ret.citations[i].relevance_score >= RelevanceThreshold
             /\ \E k \in 1..Len(DbSections(fn_args.video_id)) :
                  fn_ret.citations[i].section_id = DbSections(fn_args.video_id)[k].id

\* More relevant points of the video than the limit, and relevant points of
\* another video: five results come back.
C21_Witness ==
    /\ Chatted
    /\ ~fn_ret.raised
    /\ Len(fn_ret.context_used.text_results) = TextSearchLimit
    /\ Cardinality({i \in 1..Len(fn_args.points) :
                      /\ fn_args.points[i].video_id = fn_args.video_id
                      /\ TextScore(fn_args.query, fn_args.points[i].text) >= RelevanceThreshold})
         > TextSearchLimit
    /\ \E i \in 1..Len(fn_args.points) :
         /\ fn_args.points[i].video_id # fn_args.video_id
         /\ TextScore(fn_args.query, fn_args.points[i].text) >= RelevanceThreshold

\* C22: after any sequence of chat calls every conversation holds at most 10
\* messages, and they are the most recent messages appended to it, in the
\* order they were appended: the oldest are the ones dropped.
C22_HistoryIsLastTen ==
    \A c \in DOMAIN conversations :
        /\ Len(conversations[c]) <= MaxHistory
        /\ Len(conversations[c]) = Min(Len(appended[c]), MaxHistory)
        /\ \A i \in 1..Len(conversations[c]) :
             conversations[c][i] =
                appended[c][Len(appended[c]) - Len(conversations[c]) + i]

\* A conversation that got more than 10 messages, the dropped ones differing
\* from the ones kept in their place.
C22_Witness ==
    \E c \in DOMAIN conversations :
        /\ Len(appended[c]) > MaxHistory
        /\ Len(conversations[c]) = MaxHistory
        /\ appended[c][1] # appended[c][Len(appended[c]) - MaxHistory + 1]
        /\ turn.op = "chat" /\ turn.conversation_id = c /\ turn.stored

\* The messages alternate user, assistant, starting with a user message.
Alternates(messages) ==
    /\ Len(messages) % 2 = 0
    /\ \A i \in 1..Len(messages) :
         messages[i].role = (IF i % 2 = 1 THEN "user" ELSE "assistant")

\* C30: under sequential chat calls every stored history has even length and
\* alternates user, assistant from a user message; a chat call that ends in
\* the error path adds no message to any conversation; a chat call on one
\* conversation leaves the history of every other conversation as it was.
C30_PairsKeptWhole ==
    /\ \A c \in DOMAIN conversations : Alternates(conversations[c])
    /\ (turn.op = "chat" /\ (turn.raised \/ turn.response = "error")) =>
          conversations = turn.before
    /\ turn.op = "chat" =>
          \A c \in DOMAIN turn.before :
              c # turn.conversation_id =>
                  (c \in DOMAIN conversations /\ conversations[c] = turn.before[c])

\* A failed chat call on a conversation that was cut to 10 messages, with
\* another conversation stored next to it.
C30_Witness ==
    /\ turn.op = "chat"
    /\ turn.response = "error"
    /\ turn.conversation_id \in DOMAIN conversations
    /\ Len(appended[turn.conversation_id]) > MaxHistory
    /\ Len(conversations[turn.conversation_id]) = MaxHistory
    /\ \E c \in DOMAIN conversations : c # turn.conversation_id

\* The calls of chat the threads have made, all of them finished.
ThreadCalls == {<<t, k>> \in ThreadIds \X (1..MaxThreadCalls) : k <= threads[t].call}
AllFinished == \A t \in ThreadIds : threads[t].pc = "idle"

\* C23: chat calls for one conversation id that run concurrently lose no
\* update: once they have finished, the history holds the user and assistant
\* message of every call (up to the bound of 10 messages), each user message
\* immediately followed by the assistant message of the same call.
C23_NoLostUpdate ==
    AllFinished =>
        LET history == HistoryOf(conversations, SharedId)
            holds(call) == \E i \in 1..(Len(history) - 1) :
                              /\ history[i] = UserMessage(call)
                              /\ history[i + 1] = AssistantMessage(call, "answer")
        IN /\ Len(history) = Min(2 * Cardinality(ThreadCalls), MaxHistory)
           /\ Cardinality({call \in ThreadCalls : holds(call)}) = Len(history) \div 2

\* Request i was a chat on a conversation that completed and stored its turn.
CompletedChat(i) ==
    /\ requests[i].route = "chat"
    /\ requests[i].status = 200
    /\ requests[i].messages # <<>>

\* The messages of s appear in t, in order and next to each other.
Within(s, t) ==
    \E k \in 0..(Len(t) - Len(s)) : \A i \in 1..Len(s) : t[k + i] = s[i]

\* C27: a conversation lives as long as the process: after a chat request on
\* conversation c has completed, a later history request for c returns the
\* user and assistant message of that call, a later chat on c is given them as
\* its history, and a later clear of c succeeds.
C27_ConversationOutlivesRequest ==
    \A i, j \in 1..Len(requests) :
        (/\ i < j
         /\ CompletedChat(i)
         /\ requests[j].conversation_id = requests[i].conversation_id
         /\ \A m \in (i + 1)..(j - 1) : requests[m].route # "clear") =>
            /\ requests[j].route = "history" =>
                  Within(requests[i].messages, requests[j].messages)
            /\ (requests[j].route = "chat" /\ requests[j].status = 200) =>
                  Within(requests[i].messages, requests[j].history)
            /\ requests[j].route = "clear" => requests[j].status = 200

\* C24: while a process_transcript call for a video is between clearing the
\* collection and finishing the write, no load_vector_store,
\* check_vector_store_exists or QA retrieval for the video runs, and no
\* second process_transcript call for the video is inside the same section.
Reads == {"load_vector_store", "check_vector_store_exists", "get_qa_chain", "ask_question"}
C24_ReindexIsExclusive ==
    /\ qa_last.op \in Reads => ~qa_last.busy
    /\ \A w1, w2 \in WriterIds :
          (w1 # w2 /\ writers[w1].pc # "idle" /\ writers[w2].pc # "idle")
              => writers[w1].video_id # writers[w2].video_id

\* C25: once the directory of a video has been deleted,
\* check_vector_store_exists is False, load_vector_store returns None, and
\* get_qa_chain and ask_question of an existing QAManager do not answer
\* from the video's content.
C25_DeletedContentGone ==
    (qa_last.op \in Reads /\ qa_last.coll.dir = "absent") => ~qa_last.result.built

\* C26: get_qa_chain returns a chain over the collection as it is at the
\* call: a chain when the video has been indexed, with the documents the
\* last indexing wrote.
C26_ChainReflectsCollection ==
    (qa_last.op = "get_qa_chain" /\ qa_last.coll.dir # "absent")
        => /\ qa_last.result.built
           /\ qa_last.result.docs = qa_last.coll.docs

\* C28: after update_config returns the cache is empty (current_size 0), and
\* a chain returned by get_qa_chain once update_config has returned has the
\* retrieval_k and the model of the configuration in force.
C28_UpdateConfigEmptiesCache ==
    /\ (qa_last.op = "update_config" /\ qa_last.result.built) => CurrentSize(qa_cache) = 0
    /\ (qa_last.op = "get_qa_chain" /\ qa_last.settled /\ qa_last.result.built)
          => /\ qa_last.result.retrieval_k = qa_config.config.retrieval_k
             /\ qa_last.result.llm = qa_config.config.model_name
C28_Witness ==
    /\ qa_last.op = "get_qa_chain"
    /\ qa_last.settled
    /\ qa_last.result.built
    /\ qa_last.result.retrieval_k # DefaultQAConfig.retrieval_k
    /\ CurrentSize(qa_cache) = 1

\* A title as the claim counts it: what is left of the line once its
\* numbering or bullet is stripped has 3 to 100 characters and is neither
\* purely numeric nor generic.
StatedValid(line) ==
    /\ line.shape = "words"
    /\ line.len >= MinTitleLength
    /\ line.len <= MaxTitleLength
StatedTitles(lines) ==
    LET valid == SelectSeqIdx(lines, {i \in 1..Len(lines) : StatedValid(lines[i])}, 1)
    IN [i \in 1..Len(valid) |-> Title(valid[i].text, 0)]

\* C29: when the answer of the model holds fewer valid titles than
\* min_sections, generate_sections does not return sections of the AI stage;
\* otherwise the titles of the sections are the first at most max_sections
\* valid titles of the answer, in their order.
C29_AiStageFailsClean ==
    (Generated /\ fn_args.ai.kind = "answer") =>
        LET stated == StatedTitles(fn_args.ai.lines)
            sections == fn_ret.result.sections
        IN IF Len(stated) < fn_args.config.min_sections
             THEN fn_ret.result.strategy_used # "ai_analysis"
           ELSE stated # <<>> =>
                  /\ fn_ret.result.strategy_used = "ai_analysis"
                  /\ [i \in 1..Len(sections) |-> sections[i].title]
                       = Prefix(stated, fn_args.config.max_sections)

====
